---- MODULE Spec2Model ----
(***************************************************************************)
(* Model of the todo-list assistant's intent resolution and disambiguation *)
(* engine: src/src/orchestration/handler.py (command parsers, task         *)
(* selector matching, the pending-selection store, handle_text), the path  *)
(* resolution of src/src/todoist/client.py and the intent normalisation of *)
(* src/src/parser/llm_parser.py.                                           *)
(*                                                                         *)
(* Text is a sequence of one-character strings.  None is the Python None.  *)
(* A local of the code that is read more than once is the parameter of a   *)
(* local operator, so that it is evaluated once.                           *)
(***************************************************************************)
EXTENDS Integers, Sequences, FiniteSets, TLC

\* The Python None where a str is expected: a text no message can contain
None == <<"<None>">>

\* The Python None where an int is expected (ids of the backend are positive)
NoneInt == -1

\* min(S), or 0 for the empty set
MinOrZero(S) == IF S = {} THEN 0 ELSE CHOOSE x \in S : \A y \in S : x <= y

\* max(S), or 0 for the empty set
MaxOrZero(S) == IF S = {} THEN 0 ELSE CHOOSE x \in S : \A y \in S : y <= x

(***************************************************************************)
(* Python str primitives                                                   *)
(***************************************************************************)
Whitespace == {" ", "\t"}

\* characters c with c.isdigit() and int(c) defined
DecimalDigits == {"0", "1", "2", "3", "4", "5", "6", "7", "8", "9"}

\* characters c with c.isdigit() for which int(c) raises ValueError
SuperscriptDigits == {"^2"}

LowerChar(c) ==
  CASE c = "A" -> "a" [] c = "B" -> "b" [] c = "C" -> "c" [] c = "D" -> "d"
    [] c = "E" -> "e" [] c = "F" -> "f" [] c = "G" -> "g" [] c = "H" -> "h"
    [] c = "I" -> "i" [] c = "J" -> "j" [] c = "K" -> "k" [] c = "L" -> "l"
    [] c = "M" -> "m" [] c = "N" -> "n" [] c = "O" -> "o" [] c = "P" -> "p"
    [] c = "Q" -> "q" [] c = "R" -> "r" [] c = "S" -> "s" [] c = "T" -> "t"
    [] c = "U" -> "u" [] c = "V" -> "v" [] c = "W" -> "w" [] c = "X" -> "x"
    [] c = "Y" -> "y" [] c = "Z" -> "z" [] OTHER -> c

\* str.lower()
Lower(s) == [i \in 1..Len(s) |-> LowerChar(s[i])]

\* s[a:b] with 0-based Python bounds 0 <= a, b <= len(s)
Slice(s, a, b) == IF b <= a THEN <<>> ELSE SubSeq(s, a + 1, b)

RECURSIVE LStripFrom(_, _)
LStripFrom(s, i) ==
  IF i > Len(s) THEN Len(s)
  ELSE IF s[i] \in Whitespace THEN LStripFrom(s, i + 1) ELSE i - 1

RECURSIVE RStripFrom(_, _)
RStripFrom(s, i) ==
  IF i < 1 THEN 0
  ELSE IF s[i] \in Whitespace THEN RStripFrom(s, i - 1) ELSE i

\* str.strip()
Strip(s) == Slice(s, LStripFrom(s, 1), RStripFrom(s, Len(s)))

\* str.lstrip("#")
RECURSIVE LStripHash(_)
LStripHash(s) ==
  IF s # <<>> /\ Head(s) = "#" THEN LStripHash(Tail(s)) ELSE s

\* str.startswith(p)
StartsWith(s, p) == Len(p) <= Len(s) /\ SubSeq(s, 1, Len(p)) = p

\* sub in s
Contains(s, sub) ==
  \E i \in 0..(Len(s) - Len(sub)) : SubSeq(s, i + 1, i + Len(sub)) = sub

\* str.rfind(sub): the highest 0-based index where sub starts, or -1
RFind(s, sub) ==
  MaxOrZero({i \in 1..(Len(s) - Len(sub) + 1) : SubSeq(s, i, i + Len(sub) - 1) = sub}) - 1

\* str.isdigit()
IsDigit(s) == s # <<>> /\ \A i \in 1..Len(s) : s[i] \in DecimalDigits \cup SuperscriptDigits

\* int(s) raises ValueError
IntRaises(s) == \E i \in 1..Len(s) : s[i] \notin DecimalDigits

DigitValue(c) ==
  CASE c = "0" -> 0 [] c = "1" -> 1 [] c = "2" -> 2 [] c = "3" -> 3 [] c = "4" -> 4
    [] c = "5" -> 5 [] c = "6" -> 6 [] c = "7" -> 7 [] c = "8" -> 8 [] c = "9" -> 9

\* int(s) for a string of decimal digits
RECURSIVE ToInt(_)
ToInt(s) ==
  IF s = <<>> THEN 0 ELSE 10 * ToInt(SubSeq(s, 1, Len(s) - 1)) + DigitValue(s[Len(s)])

\* re.sub(r"\s+", " ", s)
RECURSIVE CollapseWhitespace(_)
CollapseWhitespace(s) ==
  IF s = <<>> THEN <<>>
  ELSE IF Head(s) \in Whitespace
       THEN <<" ">> \o CollapseWhitespace(Slice(s, LStripFrom(s, 1), Len(s)))
       ELSE <<Head(s)>> \o CollapseWhitespace(Tail(s))

(***************************************************************************)
(* handler.py: marker extraction                                           *)
(***************************************************************************)
K_set == <<"s","e","t">>
K_due == <<"d","u","e">>
K_project == <<"p","r","o","j","e","c","t">>

CreateMarkers == <<K_due, K_project>>

EditMarkers == <<K_set, K_due, K_project>>

\* the keys of `keys` that the pattern \s/(k1|k2|...)\s+ matches at the
\* 0-based position i of body, ignoring case
KeysAt(body, i, keys) ==
  {n \in 1..Len(keys) :
     /\ i + 2 + Len(keys[n]) + 1 <= Len(body)
     /\ body[i + 1] \in Whitespace
     /\ body[i + 2] = "/"
     /\ Lower(SubSeq(body, i + 3, i + 2 + Len(keys[n]))) = keys[n]
     /\ body[i + 3 + Len(keys[n])] \in Whitespace}

\* list(pattern.finditer(body)) from position `from`: non-overlapping matches,
\* left to right, each [start, end, key] with Python's match.start()/end()
RECURSIVE FindIter(_, _, _)
FindIter(body, keys, from) ==
  LET Match(i, key) == [start |-> i, end |-> LStripFrom(body, i + 3 + Len(key)),
                        key |-> key]
      Then(m) == <<m>> \o FindIter(body, keys, m.end)
      At(i, n) == IF n = 0 THEN FindIter(body, keys, i + 1) ELSE Then(Match(i, keys[n]))
  IN IF from >= Len(body) THEN <<>>
     ELSE At(from, MinOrZero(KeysAt(body, from, keys)))

\* the value of the idx-th match: up to the next match or the end, stripped
MarkerValue(body, matches, idx) ==
  Strip(Slice(body, matches[idx].end,
              IF idx + 1 <= Len(matches) THEN matches[idx + 1].start ELSE Len(body)))

\* the loop over the matches: the last non-empty value of `key`, or None
LastValue(body, matches, key) ==
  LET Value(idx) == IF idx = 0 THEN None ELSE MarkerValue(body, matches, idx)
  IN Value(MaxOrZero({idx \in 1..Len(matches) :
                        matches[idx].key = key /\ MarkerValue(body, matches, idx) # <<>>}))

_extract_marked_fields(body) ==
  LET Fields(matches) ==
        IF matches = <<>>
        THEN [content |-> Strip(body), due_string |-> None, project_ref |-> None]
        ELSE [content |-> Strip(Slice(body, 0, matches[1].start)),
              due_string |-> LastValue(body, matches, K_due),
              project_ref |-> LastValue(body, matches, K_project)]
  IN Fields(FindIter(body, CreateMarkers, 0))

_extract_hash_project(content) ==
  LET Leading(project_ref) ==
        IF project_ref # <<>> THEN [content |-> <<>>, project_ref |-> project_ref]
        ELSE [content |-> content, project_ref |-> None]
      Fallback ==
        IF StartsWith(content, <<"#">>) THEN Leading(Strip(Tail(content)))
        ELSE [content |-> content, project_ref |-> None]
      Split(task_content, project_ref) ==
        IF task_content # <<>> /\ project_ref # <<>>
        THEN [content |-> task_content, project_ref |-> project_ref]
        ELSE Fallback
      At(hash_start) ==
        IF hash_start >= 0
        THEN Split(Strip(Slice(content, 0, hash_start)),
                   Strip(Slice(content, hash_start + 2, Len(content))))
        ELSE Fallback
  IN IF content = <<>> THEN [content |-> content, project_ref |-> None]
     ELSE At(RFind(content, <<" ", "#">>))

_extract_edit_fields(body) ==
  LET Fields(matches) ==
        IF matches = <<>>
        THEN [selector |-> Strip(body), new_content |-> None, due_string |-> None,
              project_ref |-> None]
        ELSE [selector |-> Strip(Slice(body, 0, matches[1].start)),
              new_content |-> LastValue(body, matches, K_set),
              due_string |-> LastValue(body, matches, K_due),
              project_ref |-> LastValue(body, matches, K_project)]
  IN Fields(FindIter(body, EditMarkers, 0))

(***************************************************************************)
(* handler.py: the four command parsers.  A command is a record with a     *)
(* kind field; NoCommand is the parser's None.                             *)
(***************************************************************************)
NoCommand == [kind |-> "none"]

W_create == <<"c","r","e","a","t","e"," ">>
W_add == <<"a","d","d"," ">>
W_todo == <<"t","o","d","o"," ">>
W_edit == <<"e","d","i","t"," ">>
W_update == <<"u","p","d","a","t","e"," ">>
W_change == <<"c","h","a","n","g","e"," ">>
W_complete == <<"c","o","m","p","l","e","t","e"," ">>
W_done == <<"d","o","n","e"," ">>
W_finish == <<"f","i","n","i","s","h"," ">>
W_close == <<"c","l","o","s","e"," ">>
W_reschedule == <<"r","e","s","c","h","e","d","u","l","e"," ">>
W_move == <<"m","o","v","e"," ">>

\* next((p for p in prefixes if lowered.startswith(p)), None): the index of
\* the first matching prefix, 0 when there is none
MatchedPrefix(prefixes, lowered) ==
  MinOrZero({n \in 1..Len(prefixes) : StartsWith(lowered, prefixes[n])})

\* normalized[len(matched_prefix):].strip(), or None without a prefix
CommandBody(text, prefixes) ==
  LET After(normalized, n) ==
        IF n = 0 THEN None
        ELSE Strip(Slice(normalized, Len(prefixes[n]), Len(normalized)))
      Of(normalized) == After(normalized, MatchedPrefix(prefixes, Lower(normalized)))
  IN Of(Strip(text))

parse_create_command(text) ==
  LET Command(marked, hashed) ==
        IF hashed.content = <<>> THEN NoCommand
        ELSE [kind |-> "create", content |-> hashed.content,
              due_string |-> marked.due_string,
              project_ref |->
                IF (marked.project_ref = None \/ marked.project_ref = <<>>)
                   /\ hashed.project_ref # None /\ hashed.project_ref # <<>>
                THEN hashed.project_ref ELSE marked.project_ref]
      Marked(marked) == Command(marked, _extract_hash_project(marked.content))
      Of(body) == IF body = None \/ body = <<>> THEN NoCommand
                  ELSE Marked(_extract_marked_fields(body))
  IN Of(CommandBody(text, <<W_create, W_add, W_todo>>))

parse_edit_command(text) ==
  LET Command(f) ==
        IF f.selector = <<>> THEN NoCommand
        ELSE IF f.new_content = None /\ f.due_string = None THEN NoCommand
        ELSE [kind |-> "edit", selector |-> f.selector,
              new_content |-> f.new_content, due_string |-> f.due_string,
              project_ref |-> f.project_ref]
      Of(body) == IF body = None \/ body = <<>> THEN NoCommand
                  ELSE Command(_extract_edit_fields(body))
  IN Of(CommandBody(text, <<W_edit, W_update, W_change>>))

parse_complete_command(text) ==
  LET Command(f) ==
        IF f.selector = <<>> THEN NoCommand
        ELSE [kind |-> "complete", selector |-> f.selector,
              project_ref |-> f.project_ref]
      Of(body) == IF body = None \/ body = <<>> THEN NoCommand
                  ELSE Command(_extract_edit_fields(body))
  IN Of(CommandBody(text, <<W_complete, W_done, W_finish, W_close>>))

parse_reschedule_command(text) ==
  LET Command(f) ==
        IF f.selector = <<>> \/ f.due_string = None THEN NoCommand
        ELSE [kind |-> "reschedule", selector |-> f.selector,
              due_string |-> f.due_string, project_ref |-> f.project_ref]
      Of(body) == IF body = None \/ body = <<>> THEN NoCommand
                  ELSE Command(_extract_edit_fields(body))
  IN Of(CommandBody(text, <<W_reschedule, W_move>>))

(***************************************************************************)
(* difflib.SequenceMatcher(None, a, b).ratio() as the fraction num/den.    *)
(* No junk; the autojunk heuristic needs len(b) >= 200.                    *)
(***************************************************************************)
\* the length of the common run of a from i and b from j (1-based), within
\* a[..ahi] and b[..bhi]
RECURSIVE RunLength(_, _, _, _, _, _)
RunLength(a, b, i, j, ahi, bhi) ==
  IF i > ahi \/ j > bhi THEN 0
  ELSE IF a[i] # b[j] THEN 0
  ELSE 1 + RunLength(a, b, i + 1, j + 1, ahi, bhi)

\* find_longest_match(alo, ahi, blo, bhi) on a[alo..ahi], b[blo..bhi]
\* (1-based, inclusive): the longest block, the earliest in a, then in b
find_longest_match(a, b, alo, ahi, blo, bhi) ==
  LET Block(len) ==
        LET At(k, i0) ==
              [i |-> i0, j |-> MinOrZero({j \in blo..bhi : len[i0, j] = k}), size |-> k]
            Longest(k) ==
              IF k = 0 THEN [i |-> alo, j |-> blo, size |-> 0]
              ELSE At(k, MinOrZero({i \in alo..ahi : \E j \in blo..bhi : len[i, j] = k}))
        IN Longest(MaxOrZero({len[i, j] : i \in alo..ahi, j \in blo..bhi}))
  IN Block([i \in alo..ahi, j \in blo..bhi |-> RunLength(a, b, i, j, ahi, bhi)])

\* sum of the sizes of get_matching_blocks() within a[alo..ahi], b[blo..bhi]
RECURSIVE MatchedChars(_, _, _, _, _, _)
MatchedChars(a, b, alo, ahi, blo, bhi) ==
  LET Around(m) ==
        IF m.size = 0 THEN 0
        ELSE m.size
             + MatchedChars(a, b, alo, m.i - 1, blo, m.j - 1)
             + MatchedChars(a, b, m.i + m.size, ahi, m.j + m.size, bhi)
  IN IF alo > ahi \/ blo > bhi THEN 0
     ELSE Around(find_longest_match(a, b, alo, ahi, blo, bhi))

\* ratio(): 2.0 * matches / (len(a) + len(b)), 1.0 when both are empty
Ratio(a, b) ==
  IF Len(a) + Len(b) = 0 THEN [num |-> 1, den |-> 1]
  ELSE [num |-> 2 * MatchedChars(a, b, 1, Len(a), 1, Len(b)), den |-> Len(a) + Len(b)]

\* r >= pct / 100
RatioAtLeast(r, pct) == r.num * 100 >= pct * r.den

\* a gap test that every pair of scores passes
GapAtLeastAlways(r1, r2, pct) == TRUE

\* r1 - r2 >= pct / 100
GapAtLeast(r1, r2, pct) ==
  (r1.num * r2.den - r2.num * r1.den) * 100 >= pct * r1.den * r2.den

\* r1 - r2 <= pct / 100
GapAtMost(r1, r2, pct) ==
  (r1.num * r2.den - r2.num * r1.den) * 100 <= pct * r1.den * r2.den

\* r1 > r2
RatioGreater(r1, r2) == r1.num * r2.den > r2.num * r1.den

(***************************************************************************)
(* handler.py: task selector matching                                      *)
(***************************************************************************)
\* the thresholds of _find_task_matches, in hundredths
KeepPct == 62
FloorPct == 72
GapPct == 8
MaxCandidates == 5

\* a normalisation that keeps the letter case
_normalize_task_text_cased(value) == CollapseWhitespace(Strip(value))

_normalize_task_text(value) == CollapseWhitespace(Lower(Strip(value)))

\* the whole sequence, whatever n
TakeAll(seq, n) == seq

\* the last n elements of seq
TakeLast(seq, n) ==
  IF Len(seq) <= n THEN seq ELSE SubSeq(seq, Len(seq) - n + 1, Len(seq))

\* seq[:n]
Take(seq, n) == IF Len(seq) <= n THEN seq ELSE SubSeq(seq, 1, n)

\* seq without its element at position k
Without(seq, k) ==
  [j \in 1..(Len(seq) - 1) |-> IF j < k THEN seq[j] ELSE seq[j + 1]]

\* scored.sort(key=score, reverse=True): descending, stable
RECURSIVE SortByScore(_)
SortByScore(scored) ==
  LET From(best) == <<scored[best]>> \o SortByScore(Without(scored, best))
  IN IF scored = <<>> THEN <<>>
     ELSE From(CHOOSE i \in 1..Len(scored) :
                 /\ \A j \in 1..Len(scored) : ~RatioGreater(scored[j].score, scored[i].score)
                 /\ \A j \in 1..(i - 1) : RatioGreater(scored[i].score, scored[j].score))

NoTask == [id |-> NoneInt]

\* the outcome [status, task, candidates]; status "raised" is the ValueError
\* of int(raw) propagating
_find_task_matches(tasks, selector) ==
  LET none == [status |-> "none", task |-> NoTask, candidates |-> <<>>]
      found(t) == [status |-> "found", task |-> t, candidates |-> <<>>]
      ambiguous(c) == [status |-> "ambiguous", task |-> NoTask,
                       candidates |-> Take(c, MaxCandidates)]
      ById(id_matches) == IF Len(id_matches) = 1 THEN found(id_matches[1]) ELSE none
      Unique(matches, otherwise) ==
        IF Len(matches) = 1 THEN found(matches[1])
        ELSE IF Len(matches) > 1 THEN ambiguous(matches)
        ELSE otherwise
      Fuzzy(scored) ==
        LET Near(x) == GapAtMost(scored[1].score, x.score, GapPct)
            TasksOf(close) == [i \in 1..Len(close) |-> close[i].task]
        IN IF scored = <<>> THEN none
           ELSE IF ~RatioAtLeast(scored[1].score, FloorPct) THEN none
           ELSE IF Len(scored) = 1 \/ GapAtLeast(scored[1].score, scored[2].score, GapPct)
           THEN found(scored[1].task)
           ELSE ambiguous(TasksOf(SelectSeq(scored, Near)))
      Cascade(raw, normalized_selector) ==
        LET IdMatch(t) == t.id = ToInt(raw)
            Exact(t) == _normalize_task_text(t.content) = normalized_selector
            Has(t) == Contains(_normalize_task_text(t.content), normalized_selector)
            Kept(x) == RatioAtLeast(x.score, KeepPct)
        IN IF raw = <<>> THEN none
           ELSE IF IsDigit(raw) THEN
             IF IntRaises(raw) THEN [status |-> "raised", task |-> NoTask, candidates |-> <<>>]
             ELSE ById(SelectSeq(tasks, IdMatch))
           ELSE Unique(SelectSeq(tasks, Exact),
                  Unique(SelectSeq(tasks, Has),
                    Fuzzy(SortByScore(SelectSeq(
                      [i \in 1..Len(tasks) |->
                         [score |-> Ratio(normalized_selector,
                                          _normalize_task_text(tasks[i].content)),
                          task |-> tasks[i]]], Kept)))))
      Of(raw) == Cascade(raw, _normalize_task_text(raw))
  IN Of(Strip(selector))

(***************************************************************************)
(* todoist/client.py: path normalisation and the resolution cascades       *)
(***************************************************************************)
\* the characters of the model in code point order, for str comparison
CodePoints ==
  <<"\t", " ", "#", "-", "/", "0", "1", "2", "3", "4", "5", "6", "7", "8", "9",
    "A","B","C","D","E","F","G","H","I","J","K","L","M","N","O","P","Q","R","S",
    "T","U","V","W","X","Y","Z", "\\",
    "a","b","c","d","e","f","g","h","i","j","k","l","m","n","o","p","q","r","s",
    "t","u","v","w","x","y","z", "^2">>

Ord(c) == CHOOSE i \in 1..Len(CodePoints) : CodePoints[i] = c

\* a > b for str
RECURSIVE StrGreater(_, _)
StrGreater(a, b) ==
  IF a = <<>> THEN FALSE
  ELSE IF b = <<>> THEN TRUE
  ELSE IF Head(a) # Head(b) THEN Ord(Head(a)) > Ord(Head(b))
  ELSE StrGreater(Tail(a), Tail(b))

\* re.sub(r"\s*/\s*", "/", s)
RECURSIVE TightenSlashes(_)
TightenSlashes(s) ==
  LET After(j) ==
        IF j < Len(s) /\ s[j + 1] = "/"
        THEN <<"/">> \o TightenSlashes(Slice(s, LStripFrom(s, j + 2), Len(s)))
        ELSE <<Head(s)>> \o TightenSlashes(Tail(s))
  IN IF s = <<>> THEN <<>> ELSE After(LStripFrom(s, 1))

_normalize_project_ref(value) ==
  LET Slashed(lowered) ==
        [i \in 1..Len(lowered) |-> IF lowered[i] = "\\" THEN "/" ELSE lowered[i]]
  IN CollapseWhitespace(TightenSlashes(Slashed(Lower(Strip(value)))))

AlphaNumeric ==
  DecimalDigits \cup {"a","b","c","d","e","f","g","h","i","j","k","l","m","n","o",
                      "p","q","r","s","t","u","v","w","x","y","z"}

_squash_project_ref(value) ==
  LET IsAlnum(c) == c \in AlphaNumeric
  IN SelectSeq(_normalize_project_ref(value), IsAlnum)

\* build_path(project_id): the names from the root joined by "/"
RECURSIVE build_path(_, _)
build_path(projects, pid) ==
  LET Path(p) ==
        IF p.parent_id # NoneInt
        THEN build_path(projects, p.parent_id) \o <<"/">> \o Strip(p.name)
        ELSE Strip(p.name)
  IN Path(projects[CHOOSE i \in 1..Len(projects) : projects[i].id = pid])

PathRecord(id, project_id, name, full_path) ==
  [id |-> id, project_id |-> project_id, name |-> name, path |-> full_path,
   path_norm |-> _normalize_project_ref(full_path),
   path_squash |-> _squash_project_ref(full_path),
   name_norm |-> _normalize_project_ref(name),
   name_squash |-> _squash_project_ref(name)]

_project_records(projects) ==
  [i \in 1..Len(projects) |->
     PathRecord(projects[i].id, NoneInt, Strip(projects[i].name),
                build_path(projects, projects[i].id))]

_section_records(projects, sections) ==
  LET Path(precs, k) == IF k = 0 THEN <<>> ELSE Strip(precs[k].path)
      ProjectPath(precs, pid) ==
        Path(precs, MaxOrZero({i \in 1..Len(precs) : precs[i].id = pid}))
      Record(section, section_name, project_path) ==
        PathRecord(section.id, section.project_id, section_name,
                   IF project_path # <<>> THEN project_path \o <<"/">> \o section_name
                   ELSE section_name)
      Records(precs) ==
        [i \in 1..Len(sections) |->
           Record(sections[i], Strip(sections[i].name),
                  ProjectPath(precs, sections[i].project_id))]
  IN Records(_project_records(projects))

\* the cutoffs of get_close_matches, in hundredths
ResolveCutoffPct == 72
SuggestCutoffPct == 45
SuggestLimit == 3

\* heapq.nlargest order of (score, x): higher score first, then the larger str
RECURSIVE SortClose(_)
SortClose(scored) ==
  LET Before(x, y) == \/ RatioGreater(x.score, y.score)
                      \/ /\ ~RatioGreater(y.score, x.score)
                         /\ StrGreater(x.path, y.path)
      From(best) == <<scored[best]>> \o SortClose(Without(scored, best))
  IN IF scored = <<>> THEN <<>>
     ELSE From(CHOOSE i \in 1..Len(scored) :
                 /\ \A j \in 1..Len(scored) : ~Before(scored[j], scored[i])
                 /\ \A j \in 1..(i - 1) : Before(scored[i], scored[j]))

\* difflib.get_close_matches(word, possibilities, n, cutoff)
get_close_matches(word, possibilities, n, cutoffPct) ==
  LET Good(x) == RatioAtLeast(x.score, cutoffPct)
      Paths(best) == [i \in 1..Len(best) |-> best[i].path]
  IN Paths(Take(SortClose(SelectSeq(
       [i \in 1..Len(possibilities) |->
          [score |-> Ratio(possibilities[i], word), path |-> possibilities[i]]],
       Good)), n))

NoRecord == [id |-> NoneInt]

PathNorms(records) == [i \in 1..Len(records) |-> records[i].path_norm]

\* next((r for r in records if r["path_norm"] == target), None)
FirstWithPath(records, target) ==
  LET At(k) == IF k = 0 THEN NoRecord ELSE records[k]
  IN At(MinOrZero({i \in 1..Len(records) : records[i].path_norm = target}))

\* the first element of matches, or else `otherwise`
OnlyFirst(matches, otherwise) == IF matches # <<>> THEN matches[1] ELSE otherwise

\* the one element of matches, or else `otherwise`
Only(matches, otherwise) == IF Len(matches) = 1 THEN matches[1] ELSE otherwise

\* a project resolution that finds nothing
resolve_project_never(records, project_ref) == NoRecord

\* TodoistClient.resolve_project over the project records
resolve_project(records, project_ref) ==
  LET Closest(close) ==
        IF Len(close) = 1 THEN FirstWithPath(records, close[1]) ELSE NoRecord
      Cascade(normalized, squashed) ==
        LET ExactPath(r) == r.path_norm = normalized
            ExactName(r) == r.name_norm = normalized
            Squash(r) == r.path_squash = squashed \/ r.name_squash = squashed
            Has(r) == /\ squashed # <<>>
                      /\ \/ Contains(r.path_squash, squashed)
                         \/ StartsWith(r.name_squash, squashed)
        IN IF normalized = <<>> THEN NoRecord
           ELSE Only(SelectSeq(records, ExactPath),
                  Only(SelectSeq(records, ExactName),
                    Only(SelectSeq(records, Squash),
                      Only(SelectSeq(records, Has),
                        Closest(get_close_matches(normalized, PathNorms(records), 3,
                                                  ResolveCutoffPct))))))
      Of(ref) == Cascade(_normalize_project_ref(ref), _squash_project_ref(ref))
  IN Of(LStripHash(Strip(project_ref)))

\* TodoistClient.resolve_section over the section records
resolve_section(records, section_ref) ==
  LET Closest(close) ==
        IF Len(close) = 1 THEN FirstWithPath(records, close[1]) ELSE NoRecord
      Cascade(normalized, squashed) ==
        LET ExactPath(r) == r.path_norm = normalized
            ExactName(r) == r.name_norm = normalized
            Squash(r) == r.path_squash = squashed \/ r.name_squash = squashed
        IN IF normalized = <<>> THEN NoRecord
           ELSE Only(SelectSeq(records, ExactPath),
                  Only(SelectSeq(records, ExactName),
                    Only(SelectSeq(records, Squash),
                      Closest(get_close_matches(normalized, PathNorms(records), 3,
                                                ResolveCutoffPct)))))
      Of(ref) == Cascade(_normalize_project_ref(ref), _squash_project_ref(ref))
  IN Of(LStripHash(Strip(section_ref)))

\* TodoistClient.suggest_projects / suggest_sections over the records
suggest_paths(records, ref, limit) ==
  LET Of(normalized) ==
        IF normalized = <<>> THEN <<>>
        ELSE get_close_matches(normalized, PathNorms(records), limit, SuggestCutoffPct)
  IN Of(_normalize_project_ref(LStripHash(Strip(ref))))

(***************************************************************************)
(* The backend as handle_text sees it.  A backend call is recorded with    *)
(* its arguments; ok = FALSE is the call raising TodoistAPIError.  failAt  *)
(* is the position, among the calls of one handle_text, of the call that   *)
(* raises (0: none does).                                                  *)
(***************************************************************************)
Call(op) ==
  [op |-> op, task_id |-> NoneInt, content |-> None, due_string |-> None,
   ref |-> None, project_id |-> NoneInt, section_id |-> NoneInt, ok |-> TRUE]

Issue(calls, c, failAt) == Append(calls, [c EXCEPT !.ok = (Len(calls) + 1 # failAt)])

LastFailed(calls) == calls # <<>> /\ ~calls[Len(calls)].ok

MutatingOps == {"create_task", "update_task", "close_task"}

\* the mutating calls among calls, in order
Mutations(calls) ==
  LET IsMutation(c) == c.op \in MutatingOps
  IN SelectSeq(calls, IsMutation)

\* bool(x) of an optional str
Truthy(x) == x # None /\ x # <<>>

Reply(kind) == [kind |-> kind, task_id |-> NoneInt, items |-> <<>>]

\* an exception leaving handle_text: no reply
Raised(exc, calls) ==
  [reply |-> Reply("none"), raised |-> exc, calls |-> calls]

Returned(reply, calls) ==
  [reply |-> reply, raised |-> "none", calls |-> calls]

NoChanges == [content |-> None, due_string |-> None]

(***************************************************************************)
(* handler.py: project/section resolution and the three executions         *)
(***************************************************************************)
\* a list left with its repetitions
DedupeNot(seq) == seq

\* list(dict.fromkeys(seq)): the first occurrences, in order
RECURSIVE Dedupe(_)
Dedupe(seq) ==
  LET Add(front, x) ==
        IF \E i \in 1..Len(front) : front[i] = x THEN front ELSE Append(front, x)
  IN IF seq = <<>> THEN <<>>
     ELSE Add(Dedupe(SubSeq(seq, 1, Len(seq) - 1)), seq[Len(seq)])

\* [project_id, section_id, path, error, calls, raised]: error is the reply
\* of the failure branch, Reply("none") otherwise
_resolve_project_or_section(precs, srecs, project_ref, calls0, failAt) ==
  LET out(pid, sid, path, err, calls, exc) ==
        [project_id |-> pid, section_id |-> sid, path |-> path, error |-> err,
         calls |-> calls, raised |-> exc]
      fail(calls) == out(NoneInt, NoneInt, None, Reply("none"), calls, "TodoistAPIError")
      Suggested(c4, all_suggestions) ==
        IF LastFailed(c4) THEN fail(c4)
        ELSE IF all_suggestions # <<>>
        THEN out(NoneInt, NoneInt, None,
                 [Reply("project_not_found_closest") EXCEPT !.items = all_suggestions],
                 c4, "none")
        ELSE out(NoneInt, NoneInt, None, Reply("project_not_found_exact_hint"), c4, "none")
      Suggest(c3) ==
        IF LastFailed(c3) THEN fail(c3)
        ELSE Suggested(Issue(c3, [Call("suggest_sections") EXCEPT !.ref = project_ref],
                             failAt),
                       Dedupe(suggest_paths(precs, project_ref, SuggestLimit)
                              \o suggest_paths(srecs, project_ref, SuggestLimit)))
      Section(c2, resolved_section) ==
        IF LastFailed(c2) THEN fail(c2)
        ELSE IF resolved_section # NoRecord
        THEN out(resolved_section.project_id, resolved_section.id, resolved_section.path,
                 Reply("none"), c2, "none")
        ELSE Suggest(Issue(c2, [Call("suggest_projects") EXCEPT !.ref = project_ref],
                           failAt))
      Project(c1, resolved) ==
        IF LastFailed(c1) THEN fail(c1)
        ELSE IF resolved # NoRecord
        THEN out(resolved.id, NoneInt, resolved.path, Reply("none"), c1, "none")
        ELSE Section(Issue(c1, [Call("resolve_section") EXCEPT !.ref = project_ref],
                           failAt),
                     resolve_section(srecs, project_ref))
  IN Project(Issue(calls0, [Call("resolve_project") EXCEPT !.ref = project_ref], failAt),
             resolve_project(precs, project_ref))

_execute_edit(task, new_content, due_string, calls0, failAt) ==
  LET Updated(calls) ==
        IF LastFailed(calls) THEN Raised("TodoistAPIError", calls)
        ELSE Returned([Reply("updated") EXCEPT !.task_id = task.id], calls)
  IN IF new_content = None /\ due_string = None THEN Raised("ValueError", calls0)
     ELSE Updated(Issue(calls0, [Call("update_task") EXCEPT !.task_id = task.id,
                                   !.content = new_content, !.due_string = due_string],
                        failAt))

\* _execute_complete that calls close_task again after it raised
_execute_complete_retry(task, calls0, failAt) ==
  LET Again(calls) ==
        Returned([Reply("completed") EXCEPT !.task_id = task.id],
                 Issue(calls, [Call("close_task") EXCEPT !.task_id = task.id], failAt))
      Closed(calls) ==
        IF LastFailed(calls) THEN Again(calls)
        ELSE Returned([Reply("completed") EXCEPT !.task_id = task.id], calls)
  IN Closed(Issue(calls0, [Call("close_task") EXCEPT !.task_id = task.id], failAt))

_execute_complete(task, calls0, failAt) ==
  LET Closed(calls) ==
        IF LastFailed(calls) THEN Raised("TodoistAPIError", calls)
        ELSE Returned([Reply("completed") EXCEPT !.task_id = task.id], calls)
  IN Closed(Issue(calls0, [Call("close_task") EXCEPT !.task_id = task.id], failAt))

_execute_reschedule(task, due_string, calls0, failAt) ==
  LET Updated(calls) ==
        IF LastFailed(calls) THEN Raised("TodoistAPIError", calls)
        ELSE Returned([Reply("rescheduled") EXCEPT !.task_id = task.id], calls)
  IN Updated(Issue(calls0, [Call("update_task") EXCEPT !.task_id = task.id,
                              !.due_string = due_string],
                   failAt))

(***************************************************************************)
(* handler.py: the pending-selection store and its reply handler.  The     *)
(* store is a function from the conversations that have an entry to their  *)
(* entry [action, changes, options].                                       *)
(***************************************************************************)
\* the cancel words without the two-word spelling
CancelWordsUnspaced ==
  {<<"c","a","n","c","e","l">>, <<"s","t","o","p">>,
   <<"n","e","v","e","r","m","i","n","d">>}

CancelWords ==
  {<<"c","a","n","c","e","l">>, <<"s","t","o","p">>,
   <<"n","e","v","e","r","m","i","n","d">>, <<"n","e","v","e","r"," ","m","i","n","d">>}

\* a pop that empties the store
PopAll(store, chat_id) == <<>>

\* a pop that leaves the entry in the store
PopKeeps(store, chat_id) == store

\* _PENDING_SELECTIONS.pop(chat_id, None)
Pop(store, chat_id) == [c \in (DOMAIN store) \ {chat_id} |-> store[c]]

\* _PENDING_SELECTIONS[chat_id] = entry
Put(store, chat_id, entry) ==
  [c \in (DOMAIN store) \cup {chat_id} |-> IF c = chat_id THEN entry ELSE store[c]]

PendingSelection(action, changes, options) ==
  [action |-> action, changes |-> changes, options |-> options]

\* the outcome of a handler: the reply or the exception, the backend calls
\* issued, the store it leaves, and the resolution status of the selector
\* ("n/a" when no selector was resolved)
Outcome(run, store) ==
  [reply |-> run.reply, raised |-> run.raised, calls |-> run.calls, pending |-> store,
   status |-> "n/a"]

Resolved(outcome, status) == [outcome EXCEPT !.status = status]

\* the range test without its lower bound
OutOfRangeAbove(choice, options) == choice > Len(options)

\* line 384: choice < 1 or choice > len(pending.options)
OutOfRange(choice, options) == choice < 1 \/ choice > Len(options)

\* the first option, whatever the choice
ChosenOptionFirst(options, choice) == options[1]

\* line 387: pending.options[choice - 1]; the index -1 is the last option
ChosenOption(options, choice) ==
  IF choice = 0 THEN options[Len(options)] ELSE options[choice]

_handle_pending_selection(chat_id, text, store, failAt) ==
  LET Dispatch(entry, task, popped) ==
        IF entry.action = "edit"
        THEN Outcome(_execute_edit(task, entry.changes.content,
                                   entry.changes.due_string, <<>>, failAt), popped)
        ELSE IF entry.action = "complete"
        THEN Outcome(_execute_complete(task, <<>>, failAt), popped)
        ELSE IF entry.action = "reschedule"
        THEN IF ~Truthy(entry.changes.due_string)
             THEN Outcome(Returned(Reply("missing_due_retry"), <<>>), popped)
             ELSE Outcome(_execute_reschedule(task, entry.changes.due_string, <<>>,
                                              failAt), popped)
        ELSE Outcome(Returned(Reply("unsupported_pending_action"), <<>>), popped)
      Choice(entry, choice) ==
        IF OutOfRange(choice, entry.options)
        THEN Outcome(Returned(Reply("out_of_range"), <<>>), store)
        ELSE Dispatch(entry, ChosenOption(entry.options, choice), Pop(store, chat_id))
      Answer(entry, normalized) ==
        IF normalized \in CancelWords
        THEN Outcome(Returned(Reply("canceled"), <<>>), Pop(store, chat_id))
        ELSE IF ~IsDigit(normalized)
        THEN Outcome(Returned(Reply("reply_with_number"), <<>>), store)
        ELSE IF IntRaises(normalized) THEN Outcome(Raised("ValueError", <<>>), store)
        ELSE Choice(entry, ToInt(normalized))
  IN IF chat_id \notin DOMAIN store THEN Outcome(Returned(Reply("empty"), <<>>), store)
     ELSE Answer(store[chat_id], Lower(Strip(text)))

(***************************************************************************)
(* handler.py: resolving a selector and acting on it                       *)
(***************************************************************************)
OpenTasksLimit == 200

\* the entry stored without the test of chat_id
StoreSelectionAlways(store, chat_id, entry) == Put(store, chat_id, entry)

\* lines 436-441: the entry is stored when the conversation is known
StoreSelection(store, chat_id, entry) ==
  IF chat_id # NoneInt THEN Put(store, chat_id, entry) ELSE store

\* the comprehension of lines 420-425; int(None) raises TypeError
FilterRaises(open_tasks, project_id, section_id) ==
  \E i \in 1..Len(open_tasks) :
    /\ project_id = NoneInt \/ open_tasks[i].project_id = project_id
    /\ section_id # NoneInt
    /\ open_tasks[i].section_id = NoneInt

\* the list left as it is
FilterNothing(open_tasks, project_id, section_id) == open_tasks

\* lines 420-425: the tasks of the resolved project and section
FilterTasks(open_tasks, project_id, section_id) ==
  LET Keep(task) ==
        /\ project_id = NoneInt \/ task.project_id = project_id
        /\ section_id = NoneInt \/ task.section_id = section_id
  IN SelectSeq(open_tasks, Keep)

_run_selector_action(action_name, selector, project_ref, chat_id, changes, store, tasks, precs, srecs, calls0, failAt) ==
  LET Act(m, calls) ==
        IF m.status = "raised" THEN Outcome(Raised("ValueError", calls), store)
        ELSE IF m.status = "none" \/ (m.task = NoTask /\ m.candidates = <<>>)
        THEN Resolved(Outcome(Returned(Reply("task_not_found"), calls), store), "none")
        ELSE IF m.status = "ambiguous"
        THEN Resolved(Outcome(Returned([Reply("multiple_matches") EXCEPT
                                          !.items = m.candidates], calls),
                              StoreSelection(store, chat_id,
                                PendingSelection(action_name, changes, m.candidates))),
                      "ambiguous")
        ELSE IF action_name = "edit"
        THEN Resolved(Outcome(_execute_edit(m.task, changes.content, changes.due_string,
                                            calls, failAt), store), "found")
        ELSE IF action_name = "complete"
        THEN Resolved(Outcome(_execute_complete(m.task, calls, failAt), store), "found")
        ELSE IF action_name = "reschedule"
        THEN IF ~Truthy(changes.due_string)
             THEN Resolved(Outcome(Returned(Reply("missing_due"), calls), store), "found")
             ELSE Resolved(Outcome(_execute_reschedule(m.task, changes.due_string, calls,
                                                       failAt), store), "found")
        ELSE Resolved(Outcome(Returned(Reply("unsupported_action"), calls), store), "found")
      Match(open_tasks, calls) == Act(_find_task_matches(open_tasks, selector), calls)
      Scoped(listed, pr) ==
        IF pr.raised # "none" THEN Outcome(Raised(pr.raised, pr.calls), store)
        ELSE IF pr.error # Reply("none") THEN Outcome(Returned(pr.error, pr.calls), store)
        ELSE IF FilterRaises(listed, pr.project_id, pr.section_id)
        THEN Outcome(Raised("TypeError", pr.calls), store)
        ELSE Match(FilterTasks(listed, pr.project_id, pr.section_id), pr.calls)
      Listed(c1, listed) ==
        IF LastFailed(c1) THEN Outcome(Raised("TodoistAPIError", c1), store)
        ELSE IF Truthy(project_ref)
        THEN Scoped(listed, _resolve_project_or_section(precs, srecs, project_ref, c1,
                                                        failAt))
        ELSE Match(listed, c1)
  IN Listed(Issue(calls0, Call("list_open_tasks"), failAt), Take(tasks, OpenTasksLimit))

(***************************************************************************)
(* parser/llm_parser.py: what OpenAILLMParser.parse returns for a raw JSON *)
(* object of the model's reply                                             *)
(***************************************************************************)
\* _as_optional_str: None, or the stripped text when it is not empty
_as_optional_str(value) ==
  LET Text(stripped) == IF stripped # <<>> THEN stripped ELSE None
  IN IF value = None THEN None ELSE Text(Strip(value))

\* _as_float, in hundredths: clamped to [0, 1]
_as_float(value) == IF value < 0 THEN 0 ELSE IF value > 100 THEN 100 ELSE value

A_unknown == <<"u","n","k","n","o","w","n">>

\* the LLMIntent built from the parsed JSON object (lines 95-104)
LLMIntent(parsed) ==
  [action |-> IF Truthy(parsed.action) THEN parsed.action ELSE A_unknown,
   content |-> _as_optional_str(parsed.content),
   selector |-> _as_optional_str(parsed.selector),
   new_content |-> _as_optional_str(parsed.new_content),
   due_string |-> _as_optional_str(parsed.due_string),
   project_ref |-> _as_optional_str(parsed.project_ref),
   confidence |-> _as_float(parsed.confidence),
   clarify_question |-> _as_optional_str(parsed.clarify_question)]

\* llm_parser.parse(text, context) when it returns: the LLMIntent of the
\* JSON object for OpenAILLMParser, the parser's own object otherwise
parse(llm_parser) ==
  IF llm_parser.direct THEN llm_parser.parsed ELSE LLMIntent(llm_parser.parsed)

(***************************************************************************)
(* todoist/client.py: the listings                                         *)
(***************************************************************************)
\* sorted(paths, key=lambda p: p.lower()) of a set of paths (equal keys do
\* not occur among the paths of the model)
RECURSIVE SortedByLower(_)
SortedByLower(paths) ==
  LET From(first) == <<first>> \o SortedByLower(paths \ {first})
  IN IF paths = {} THEN <<>>
     ELSE From(CHOOSE x \in paths : \A y \in paths : ~StrGreater(Lower(x), Lower(y)))

\* list_project_paths / list_section_paths over the records
list_paths(records, limit) ==
  Take(SortedByLower({records[i].path : i \in 1..Len(records)}), limit)

(***************************************************************************)
(* handler.py: handle_text                                                 *)
(***************************************************************************)
ListProjectsWords ==
  {<<"p","r","o","j","e","c","t","s">>,
   <<"l","i","s","t"," ","p","r","o","j","e","c","t","s">>}

ListSectionsWords ==
  {<<"s","e","c","t","i","o","n","s">>,
   <<"l","i","s","t"," ","s","e","c","t","i","o","n","s">>}

\* the task listing keywords without the one-word spelling
ListTasksWordsLong == {<<"l","i","s","t"," ","t","a","s","k","s">>}

ListTasksWords ==
  {<<"t","a","s","k","s">>, <<"l","i","s","t"," ","t","a","s","k","s">>}

A_edit_task == <<"e","d","i","t","_","t","a","s","k">>
A_create_task == <<"c","r","e","a","t","e","_","t","a","s","k">>
A_complete_task == <<"c","o","m","p","l","e","t","e","_","t","a","s","k">>
A_reschedule_task == <<"r","e","s","c","h","e","d","u","l","e","_","t","a","s","k">>

\* the limits handle_text and _build_llm_context pass to the listings
ProjectsListLimit == 30
SectionsListLimit == 50
TasksListLimit == 15
ContextProjectsLimit == 20
ContextSectionsLimit == 30
ContextTasksLimit == 25

\* the confidence gate, in hundredths
ConfidenceGatePct == 55

\* a gate that lets every intent through
LowConfidenceNever(confidence) == FALSE

\* line 531: confidence < 0.55
LowConfidence(confidence) == confidence < ConfidenceGatePct

\* an except clause that raises the exception again
CaughtAtParseReraised(exc) == exc

\* lines 521-525: `except Exception` around parse and the building of its
\* context; the exception that leaves the try statement
CaughtAtParse(exc) == "none"

\* handle_text without the test of line 489
HasPendingNever(chat_id, store) == FALSE

\* line 489: chat_id is not None and chat_id in _PENDING_SELECTIONS
HasPending(chat_id, store) == chat_id # NoneInt /\ chat_id \in DOMAIN store

\* no intent source is configured
NoParser == [configured |-> FALSE, raises |-> FALSE, direct |-> FALSE]

\* _build_llm_context: the three listing calls, up to the first that raises
_build_llm_context(failAt) ==
  LET Tasks(c2) ==
        IF LastFailed(c2) THEN c2 ELSE Issue(c2, Call("list_open_tasks"), failAt)
      Sections(c1) ==
        IF LastFailed(c1) THEN c1 ELSE Tasks(Issue(c1, Call("list_section_paths"), failAt))
  IN Sections(Issue(<<>>, Call("list_project_paths"), failAt))

\* a merge policy that completes the task of every intent with a selector
CommandFromIntentAsComplete(intent) ==
  IF Truthy(intent.selector)
  THEN [kind |-> "complete", selector |-> intent.selector,
        project_ref |-> intent.project_ref]
  ELSE NoCommand

\* a merge policy that builds a creation from an intent without content
CommandFromIntentLax(intent) ==
  IF Lower(intent.action) = A_create_task
  THEN [kind |-> "create", content |-> intent.content,
        due_string |-> intent.due_string, project_ref |-> intent.project_ref]
  ELSE NoCommand

\* lines 536-565: the command built from a confident intent, or NoCommand
CommandFromIntent(intent) ==
  LET Command(action) ==
        IF /\ action = A_edit_task
           /\ Truthy(intent.selector)
           /\ (intent.new_content # None \/ intent.due_string # None)
        THEN [kind |-> "edit", selector |-> intent.selector,
              new_content |-> intent.new_content, due_string |-> intent.due_string,
              project_ref |-> intent.project_ref]
        ELSE IF action = A_create_task /\ Truthy(intent.content)
        THEN [kind |-> "create", content |-> intent.content,
              due_string |-> intent.due_string, project_ref |-> intent.project_ref]
        ELSE IF action = A_complete_task /\ Truthy(intent.selector)
        THEN [kind |-> "complete", selector |-> intent.selector,
              project_ref |-> intent.project_ref]
        ELSE IF action = A_reschedule_task /\ Truthy(intent.selector)
                /\ intent.due_string # None
        THEN [kind |-> "reschedule", selector |-> intent.selector,
              due_string |-> intent.due_string, project_ref |-> intent.project_ref]
        ELSE NoCommand
  IN Command(Lower(intent.action))

\* lines 608-630: the creation
ExecuteCreate(create_command, store, precs, srecs, calls0, failAt) ==
  LET Created(calls) ==
        IF LastFailed(calls) THEN Outcome(Raised("TodoistAPIError", calls), store)
        ELSE Outcome(Returned(Reply("created"), calls), store)
      Create(calls, project_id, section_id) ==
        Created(Issue(calls, [Call("create_task") EXCEPT
                                !.content = create_command.content,
                                !.due_string = create_command.due_string,
                                !.project_id = project_id,
                                !.section_id = section_id],
                      failAt))
      In(pr) ==
        IF pr.raised # "none" THEN Outcome(Raised(pr.raised, pr.calls), store)
        ELSE IF pr.error # Reply("none") THEN Outcome(Returned(pr.error, pr.calls), store)
        ELSE Create(pr.calls, pr.project_id, pr.section_id)
  IN IF Truthy(create_command.project_ref)
     THEN In(_resolve_project_or_section(precs, srecs, create_command.project_ref,
                                         calls0, failAt))
     ELSE Create(calls0, NoneInt, NoneInt)

\* a dispatcher that tries the creation first
ExecutedCreateFirst(edit_command, complete_command, reschedule_command, create_command) ==
  IF create_command # NoCommand THEN "create"
  ELSE IF edit_command # NoCommand THEN "edit"
  ELSE IF complete_command # NoCommand THEN "complete"
  ELSE reschedule_command.kind

\* the kind of the command Execute runs
Executed(edit_command, complete_command, reschedule_command, create_command) ==
  IF edit_command # NoCommand THEN "edit"
  ELSE IF complete_command # NoCommand THEN "complete"
  ELSE IF reschedule_command # NoCommand THEN "reschedule"
  ELSE create_command.kind

\* the kinds of the commands that are not None when line 567 is reached
Produced(edit_command, complete_command, reschedule_command, create_command) ==
  (IF edit_command # NoCommand THEN {"edit"} ELSE {})
    \cup (IF complete_command # NoCommand THEN {"complete"} ELSE {})
    \cup (IF reschedule_command # NoCommand THEN {"reschedule"} ELSE {})
    \cup (IF create_command # NoCommand THEN {"create"} ELSE {})

\* lines 567-630: the execution of the commands in the fixed priority
Execute(edit_command, complete_command, reschedule_command, create_command, chat_id, store, tasks, precs, srecs, calls0, failAt) ==
  LET Select(action_name, command, changes) ==
        _run_selector_action(action_name, command.selector, command.project_ref,
                             chat_id, changes, store, tasks, precs, srecs, calls0, failAt)
      Run(kind) ==
        IF kind = "none" THEN Outcome(Returned(Reply("help"), calls0), store)
        ELSE IF kind = "create"
        THEN ExecuteCreate(create_command, store, precs, srecs, calls0, failAt)
        ELSE Select(kind,
                    IF kind = "edit" THEN edit_command
                    ELSE IF kind = "complete" THEN complete_command
                    ELSE reschedule_command,
                    IF kind = "edit"
                    THEN [content |-> edit_command.new_content,
                          due_string |-> edit_command.due_string]
                    ELSE IF kind = "complete" THEN NoChanges
                    ELSE [content |-> None,
                          due_string |-> reschedule_command.due_string])
  IN Run(Executed(edit_command, complete_command, reschedule_command, create_command))

\* an outcome with the route taken, the number of calls of the intent
\* source's parse, the kind and origin of the executed command, and the kinds
\* of the commands that are not None when line 567 is reached
Routed(outcome, route, llm_calls, command, source, produced) ==
  [reply |-> outcome.reply, raised |-> outcome.raised, calls |-> outcome.calls,
   pending |-> outcome.pending, status |-> outcome.status,
   route |-> route, llm_calls |-> llm_calls, command |-> command, source |-> source,
   produced |-> produced]

handle_text(text, chat_id, llm_parser, failAt, store, tasks, precs, srecs) ==
  LET PathListing(calls, paths, none, some) ==
        IF LastFailed(calls) THEN Outcome(Raised("TodoistAPIError", calls), store)
        ELSE IF paths = <<>> THEN Outcome(Returned(Reply(none), calls), store)
        ELSE Outcome(Returned([Reply(some) EXCEPT !.items = paths], calls), store)
      \* the commands to execute after lines 509-565, the backend calls issued
      \* so far, and the reply of the confidence gate when it answers
      Commands(edit_command, complete_command, reschedule_command, create_command,
               calls, route, llm_calls, source, gate) ==
        [edit_command |-> edit_command, complete_command |-> complete_command,
         reschedule_command |-> reschedule_command, create_command |-> create_command,
         calls |-> calls, route |-> route, llm_calls |-> llm_calls, source |-> source,
         gate |-> gate, raised |-> "none"]
      Pick(from_intent, kind) == IF from_intent.kind = kind THEN from_intent ELSE NoCommand
      \* lines 536-565
      Mapped(context, from_intent) ==
        Commands(Pick(from_intent, "edit"), Pick(from_intent, "complete"),
                 Pick(from_intent, "reschedule"), Pick(from_intent, "create"),
                 context, "intent", 1,
                 IF from_intent = NoCommand THEN "none" ELSE "intent", Reply("none"))
      \* lines 527-534
      Gated(context, intent) ==
        IF LowConfidence(intent.confidence)
        THEN Commands(NoCommand, NoCommand, NoCommand, NoCommand, context, "intent", 1,
                      "none",
                      IF Truthy(intent.clarify_question)
                      THEN [Reply("clarify") EXCEPT !.items = <<intent.clarify_question>>]
                      ELSE Reply("rephrase"))
        ELSE Mapped(context, CommandFromIntent(intent))
      \* lines 514-525
      Consulted(context) ==
        IF LastFailed(context) \/ llm_parser.raises
        THEN [Commands(NoCommand, NoCommand, NoCommand, NoCommand, context, "intent",
                       IF LastFailed(context) THEN 0 ELSE 1, "none", Reply("none"))
                EXCEPT !.raised = CaughtAtParse(IF LastFailed(context)
                                                THEN "TodoistAPIError"
                                                ELSE "LLMParserError")]
        ELSE Gated(context, parse(llm_parser))
      \* lines 509-514
      Parsed(edit_command, create_command, complete_command, reschedule_command) ==
        IF /\ edit_command = NoCommand /\ create_command = NoCommand
           /\ complete_command = NoCommand /\ reschedule_command = NoCommand
        THEN IF llm_parser.configured THEN Consulted(_build_llm_context(failAt))
             ELSE Commands(NoCommand, NoCommand, NoCommand, NoCommand, <<>>, "command", 0,
                           "none", Reply("none"))
        ELSE Commands(edit_command, complete_command, reschedule_command, create_command,
                      <<>>, "command", 0, "parser", Reply("none"))
      \* lines 534, 567-630
      Finish(c) ==
        IF c.raised # "none"
        THEN Routed(Outcome(Raised(c.raised, c.calls), store), c.route, c.llm_calls,
                    "none", "none", {})
        ELSE IF c.gate # Reply("none")
        THEN Routed(Outcome(Returned(c.gate, c.calls), store), c.route, c.llm_calls,
                    "none", "none", {})
        ELSE Routed(Execute(c.edit_command, c.complete_command, c.reschedule_command,
                            c.create_command, chat_id, store, tasks, precs, srecs,
                            c.calls, failAt),
                    c.route, c.llm_calls,
                    Executed(c.edit_command, c.complete_command, c.reschedule_command,
                             c.create_command),
                    c.source,
                    Produced(c.edit_command, c.complete_command, c.reschedule_command,
                             c.create_command))
      \* lines 487-512
      Text(normalized_text) ==
        IF normalized_text \in ListProjectsWords
        THEN Routed(PathListing(Issue(<<>>, Call("list_project_paths"), failAt),
                                list_paths(precs, ProjectsListLimit),
                                "no_projects", "projects"),
                    "listing", 0, "none", "none", {})
        ELSE IF normalized_text \in ListSectionsWords
        THEN Routed(PathListing(Issue(<<>>, Call("list_section_paths"), failAt),
                                list_paths(srecs, SectionsListLimit),
                                "no_sections", "sections"),
                    "listing", 0, "none", "none", {})
        ELSE IF normalized_text \in ListTasksWords
        THEN Routed(PathListing(Issue(<<>>, Call("list_open_tasks"), failAt),
                                Take(tasks, TasksListLimit), "no_tasks", "tasks"),
                    "listing", 0, "none", "none", {})
        ELSE Finish(Parsed(parse_edit_command(text), parse_create_command(text),
                           parse_complete_command(text), parse_reschedule_command(text)))
  IN IF HasPending(chat_id, store)
     THEN Routed(_handle_pending_selection(chat_id, text, store, failAt),
                 "pending", 0, "none", "none", {})
     ELSE Text(Lower(Strip(text)))

(***************************************************************************)
(* The world of the model: the backend's projects, sections and open       *)
(* tasks, the conversations, the messages and the intent source's replies. *)
(***************************************************************************)
S_buy == <<"b","u","y">>
S_tea == <<"t","e","a">>
S_fri == <<"f","r","i">>
S_ops == <<"o","p","s">>
S_plan == <<"p","l","a","n">>
S_hello == <<"h","e","l","l","o">>
SP == <<" ">>
M_set == <<" ","/","s","e","t"," ">>
M_due == <<" ","/","d","u","e"," ">>
M_project == <<" ","/","p","r","o","j","e","c","t"," ">>

Projects ==
  <<[id |-> 10, name |-> <<"H","o","m","e">>, parent_id |-> NoneInt],
    [id |-> 20, name |-> <<"W","o","r","k">>, parent_id |-> NoneInt]>>

Sections == <<[id |-> 30, name |-> <<"O","p","s">>, project_id |-> 20]>>

ProjectRecords == _project_records(Projects)

SectionRecords == _section_records(Projects, Sections)

Task(id, content, project_id, section_id) ==
  [id |-> id, content |-> content, due |-> None, project_id |-> project_id,
   section_id |-> section_id]

InitTasks ==
  <<Task(1, <<"B","u","y"," ","m","i","l","k">>, 10, NoneInt),
    Task(2, <<"B","u","y"," ","o","a","t"," ","m","i","l","k">>, 10, NoneInt),
    Task(3, <<"P","l","a","n">>, 20, 30)>>

\* the id the backend gives the first created task
FirstFreeId == Len(InitTasks) + 1

\* the number of tasks the backend lets the model create
MaxCreated == 1

\* the highest conversation identifier
MaxChat == 2

ChatIds == 1..MaxChat

Texts ==
  { <<"t","a","s","k","s">>,
    W_edit \o S_buy \o M_set \o S_tea,
    W_done \o S_buy,
    W_move \o S_buy \o M_due \o S_fri,
    <<"D","o","n","e"," ","B","U","Y"," "," ","m","i","l","k">>,
    W_edit \o S_plan \o M_due \o S_fri \o M_project \o S_ops,
    W_done \o <<"x","y","z">>,
    W_add \o S_tea,
    W_add \o S_tea \o M_project \o <<"z","z","z">>,
    <<"0">>, <<"1">>, <<"2">>, <<"3">>, <<"^2">>,
    <<"c","a","n","c","e","l">>,
    <<" ","N","e","v","e","r"," ","M","i","n","d">>,
    S_hello }
RawIntent(action, selector, due_string, content, confidence, clarify_question) ==
  [action |-> action, content |-> content, selector |-> selector,
   new_content |-> None, due_string |-> due_string, project_ref |-> None,
   confidence |-> confidence, clarify_question |-> clarify_question]

\* a JSON object with the action edit_task
RawEditIntent(selector, new_content, due_string, confidence) ==
  [RawIntent(A_edit_task, selector, due_string, None, confidence, None)
     EXCEPT !.new_content = new_content]

\* an action the merge policy does not know
A_delete_task == <<"d","e","l","e","t","e","_","t","a","s","k">>

\* the JSON objects the intent source's model answers with
RawIntents ==
  { RawIntent(A_complete_task, S_buy, None, None, 90, None),
    RawIntent(A_complete_task, <<"2">>, None, None, 90, None),
    RawIntent(A_reschedule_task, <<" ","b","u","y">>, SP, None, 120, None),
    RawIntent(A_unknown, None, None, None, 20, <<"w","h","i","c","h","?">>),
    RawIntent(A_complete_task, S_buy, None, None, 54, None),
    RawIntent(A_reschedule_task, S_buy, S_fri, None, 90, None),
    RawIntent(A_create_task, None, None, S_tea, 90, None),
    RawEditIntent(S_buy, S_tea, None, 55),
    RawEditIntent(S_buy, None, None, 90),
    RawIntent(A_create_task, S_buy, None, SP, 90, None),
    RawIntent(A_complete_task, SP, None, S_buy, 90, None),
    RawIntent(A_delete_task, S_buy, None, None, 90, None) }

\* no intent was returned: parse was not called, or it raised
NoIntent == LLMIntent(RawIntent(A_unknown, None, None, None, 0, None))

\* OpenAILLMParser whose parse raises LLMParserError
RaisingParser ==
  [configured |-> TRUE, raises |-> TRUE, direct |-> FALSE,
   parsed |-> RawIntent(A_unknown, None, None, None, 0, None)]

\* OpenAILLMParser whose parse returns the intent of a JSON object
AnsweringParsers ==
  {[configured |-> TRUE, raises |-> FALSE, direct |-> FALSE, parsed |-> j] :
     j \in RawIntents}

\* the intents an IntentParser other than OpenAILLMParser returns: objects
\* with the fields of LLMIntent, an empty due_string among them
DirectIntents ==
  { RawIntent(A_reschedule_task, S_buy, <<>>, None, 90, None),
    RawIntent(A_reschedule_task, S_plan, <<>>, None, 90, None) }

\* an IntentParser whose parse returns its intent object as it is
DirectParsers ==
  {[configured |-> TRUE, raises |-> FALSE, direct |-> TRUE, parsed |-> j] :
     j \in DirectIntents}

\* the number of messages of a run of the model
MaxMsgs == 3

\* the number of threads that process replies concurrently
MaxThreads == 2

(***************************************************************************)
(* State                                                                   *)
(***************************************************************************)
VARIABLES
  pending,   \* _PENDING_SELECTIONS
  tasks,     \* the open tasks of the backend, in listing order
  next_id,   \* the id the backend gives the next created task
  msgs,      \* the number of messages handled so far
  last,      \* the operation in progress: its inputs and its outcome
  threads    \* the calls of handle_text in progress on concurrent threads

vars == <<pending, tasks, next_id, msgs, last, threads>>

NoEntry == PendingSelection("none", NoChanges, <<>>)

EntryOf(store, chat_id) ==
  IF chat_id \in DOMAIN store THEN store[chat_id] ELSE NoEntry

\* the effect of a backend call on the open tasks
ApplyCall(ts, c, fresh) ==
  LET Others(t) == t.id # c.task_id
  IN IF ~c.ok THEN ts
     ELSE IF c.op = "update_task"
     THEN [i \in 1..Len(ts) |->
             IF ts[i].id # c.task_id THEN ts[i]
             ELSE [ts[i] EXCEPT
                     !.content = IF c.content # None THEN c.content ELSE @,
                     !.due = IF c.due_string # None THEN c.due_string ELSE @]]
     ELSE IF c.op = "close_task" THEN SelectSeq(ts, Others)
     ELSE IF c.op = "create_task"
     THEN Append(ts, [id |-> fresh, content |-> c.content,
                      due |-> IF Truthy(c.due_string) THEN c.due_string ELSE None,
                      project_id |-> IF c.project_id # NoneInt THEN c.project_id
                                     ELSE Projects[1].id,
                      section_id |-> c.section_id])
     ELSE ts

RECURSIVE ApplyCalls(_, _, _)
ApplyCalls(ts, calls, fresh) ==
  IF calls = <<>> THEN ts
  ELSE ApplyCalls(ApplyCall(ts, Head(calls), fresh), Tail(calls), fresh)

Creates(calls) == \E i \in 1..Len(calls) : calls[i].op = "create_task" /\ calls[i].ok

\* no call is in progress; unkeyed_listing: the call before answered an
\* ambiguous command that came without a conversation identifier
Ready(unkeyed_listing) == [op |-> "idle", unkeyed_listing |-> unkeyed_listing]

Init ==
  /\ pending = <<>>
  /\ tasks = InitTasks
  /\ next_id = FirstFreeId
  /\ msgs = 0
  /\ last = Ready(FALSE)
  /\ threads = <<>>

\* handle_text on the current store and backend
Handle(text, chat_id, llm_parser, failAt) ==
  handle_text(text, chat_id, llm_parser, failAt, pending, tasks,
              ProjectRecords, SectionRecords)

\* the behaviours of the intent source that a call can tell apart: what the
\* source is matters only when the call reaches it
ParsersFor(reached) ==
  IF reached THEN {NoParser, RaisingParser} \cup AnsweringParsers
  ELSE {RaisingParser}

\* the effect of one call of handle_text with outcome r; store and entry are
\* the store and the conversation's entry when the call began, open_tasks
\* the backend's open tasks then
Handled(text, chat_id, llm_parser, r) ==
  /\ Creates(r.calls) => next_id < FirstFreeId + MaxCreated
  /\ pending' = r.pending
  /\ tasks' = ApplyCalls(tasks, r.calls, next_id)
  /\ next_id' = IF Creates(r.calls) THEN next_id + 1 ELSE next_id
  /\ msgs' = msgs + 1
  /\ last' = [op |-> "handle_text", text |-> text, chat_id |-> chat_id,
              configured |-> llm_parser.configured,
              store |-> pending, open_tasks |-> tasks,
              entry |-> EntryOf(pending, chat_id),
              after_unkeyed_listing |-> last.unkeyed_listing,
              reply |-> r.reply, raised |-> r.raised, calls |-> r.calls,
              status |-> r.status, route |-> r.route, llm_calls |-> r.llm_calls,
              command |-> r.command, source |-> r.source,
              produced |-> r.produced,
              parse_raised |-> r.llm_calls > 0 /\ llm_parser.raises,
              intent |-> IF r.llm_calls > 0 /\ ~llm_parser.raises
                         THEN parse(llm_parser) ELSE NoIntent]
  /\ UNCHANGED threads

\* one call handle_text(text, chat_id=chat_id, llm_parser=...): the intent
\* source is any of sources when the call reaches it, and any one of the
\* backend calls it issues may raise (failAt; 0: none does)
HandleTextFrom(text, chat_id, sources) ==
  LET Failing(llm_parser, r0) ==
        \E failAt \in 0..Len(r0.calls) :
          Handled(text, chat_id, llm_parser,
                  IF failAt = 0 THEN r0 ELSE Handle(text, chat_id, llm_parser, failAt))
      Consulting(probe) ==
        \E llm_parser \in (IF probe.llm_calls > 0 THEN sources ELSE ParsersFor(FALSE)) :
          Failing(llm_parser,
                  IF llm_parser = RaisingParser THEN probe
                  ELSE Handle(text, chat_id, llm_parser, 0))
  IN /\ last.op = "idle"
     /\ msgs < MaxMsgs
     /\ Consulting(Handle(text, chat_id, RaisingParser, 0))

\* handle_text as app.py calls it: the intent source is None or the
\* OpenAILLMParser
HandleText(text, chat_id) == HandleTextFrom(text, chat_id, ParsersFor(TRUE))

\* the caller takes the reply or the exception (app.py sends it to the chat)
\* and is ready for the next message
SendReply ==
  /\ last.op # "idle"
  /\ last' = Ready(/\ last.op = "handle_text"
                   /\ last.chat_id = NoneInt
                   /\ last.status = "ambiguous")
  /\ UNCHANGED <<pending, tasks, next_id, msgs, threads>>

\* reset_runtime_state()
ResetRuntimeState ==
  /\ last.op = "idle"
  /\ pending # <<>>
  /\ pending' = <<>>
  /\ last' = [op |-> "reset_runtime_state"]
  /\ UNCHANGED <<tasks, next_id, msgs, threads>>

Next ==
  \/ \E text \in Texts, chat_id \in ChatIds \cup {NoneInt} : HandleText(text, chat_id)
  \/ SendReply
  \/ ResetRuntimeState

Spec == Init /\ [][Next]_vars

(***************************************************************************)
(* Replies processed concurrently.  handler.py takes no lock: a thread     *)
(* that calls handle_text runs line 489, then lines 371, 375-387, 388 (or  *)
(* 377) and 389-403 of _handle_pending_selection, and other threads run    *)
(* between these steps.  app.py itself handles one message at a time.      *)
(***************************************************************************)
\* the commands that leave the pending selection the threads reply to
ConcCommands ==
  { W_edit \o S_buy \o M_set \o S_tea,
    W_done \o S_buy,
    W_move \o S_buy \o M_due \o S_fri }

\* the replies the threads process
ConcReplies ==
  { <<"1">>, <<"2">>, <<"3">>, <<"c","a","n","c","e","l">>, S_hello }

\* a thread before it is given a message of conversation chat_id
Thread(chat_id) ==
  [pc |-> "idle", chat_id |-> chat_id, text |-> None, entry |-> NoEntry,
   task |-> NoTask, reply |-> Reply("none"), raised |-> "none", calls |-> <<>>]

\* the store after conversation chat_id sent an ambiguous command
ConcInit ==
  /\ \E chat_id \in ChatIds, command \in ConcCommands :
       /\ pending = handle_text(command, chat_id, NoParser, 0, <<>>, InitTasks,
                                ProjectRecords, SectionRecords).pending
       /\ threads = [t \in 1..MaxThreads |-> Thread(chat_id)]
  /\ tasks = InitTasks
  /\ next_id = FirstFreeId
  /\ msgs = 0
  /\ last = Ready(FALSE)

\* thread t ends with the outcome run
Finished(t, run) ==
  [threads EXCEPT ![t].pc = "done", ![t].reply = run.reply, ![t].raised = run.raised,
                  ![t].calls = run.calls]

\* thread t is given the message text of its conversation
Receive(t, text) ==
  /\ threads[t].pc = "idle"
  /\ threads' = [threads EXCEPT ![t].pc = "check", ![t].text = text]
  /\ UNCHANGED <<pending, tasks, next_id, msgs, last>>

\* line 489; without an entry the message takes the other routes of handle_text
CheckPending(t) ==
  LET Dispatched(r) ==
        /\ pending' = r.pending
        /\ tasks' = ApplyCalls(tasks, r.calls, next_id)
        /\ threads' = Finished(t, r)
  IN /\ threads[t].pc = "check"
     /\ IF HasPending(threads[t].chat_id, pending)
        THEN /\ threads' = [threads EXCEPT ![t].pc = "get"]
             /\ UNCHANGED <<pending, tasks>>
        ELSE Dispatched(Handle(threads[t].text, threads[t].chat_id, NoParser, 0))
     /\ UNCHANGED <<next_id, msgs, last>>

\* lines 371-373: pending = _PENDING_SELECTIONS.get(chat_id)
GetEntry(t) ==
  /\ threads[t].pc = "get"
  /\ threads' =
       IF threads[t].chat_id \in DOMAIN pending
       THEN [threads EXCEPT ![t].pc = "decide", ![t].entry = pending[threads[t].chat_id]]
       ELSE Finished(t, Returned(Reply("empty"), <<>>))
  /\ UNCHANGED <<pending, tasks, next_id, msgs, last>>

\* lines 375-387, up to the removal of the entry: the thread's own variables
Decide(t) ==
  LET Choice(choice) ==
        IF OutOfRange(choice, threads[t].entry.options)
        THEN Finished(t, Returned(Reply("out_of_range"), <<>>))
        ELSE [threads EXCEPT ![t].pc = "pop",
                             ![t].task = ChosenOption(threads[t].entry.options, choice)]
      Answer(normalized) ==
        IF normalized \in CancelWords THEN [threads EXCEPT ![t].pc = "cancel"]
        ELSE IF ~IsDigit(normalized)
        THEN Finished(t, Returned(Reply("reply_with_number"), <<>>))
        ELSE IF IntRaises(normalized) THEN Finished(t, Raised("ValueError", <<>>))
        ELSE Choice(ToInt(normalized))
  IN /\ threads[t].pc = "decide"
     /\ threads' = Answer(Lower(Strip(threads[t].text)))
     /\ UNCHANGED <<pending, tasks, next_id, msgs, last>>

\* line 377 or line 388: _PENDING_SELECTIONS.pop(chat_id, None)
PopEntry(t) ==
  /\ threads[t].pc \in {"cancel", "pop"}
  /\ pending' = Pop(pending, threads[t].chat_id)
  /\ threads' = IF threads[t].pc = "cancel"
                THEN Finished(t, Returned(Reply("canceled"), <<>>))
                ELSE [threads EXCEPT ![t].pc = "execute"]
  /\ UNCHANGED <<tasks, next_id, msgs, last>>

\* lines 389-403: the stored action on the chosen task
ExecuteStored(t, failAt) ==
  LET Ran(run) ==
        /\ tasks' = ApplyCalls(tasks, run.calls, next_id)
        /\ threads' = Finished(t, run)
      Stored(entry, task) ==
        IF entry.action = "edit"
        THEN _execute_edit(task, entry.changes.content, entry.changes.due_string,
                           <<>>, failAt)
        ELSE IF entry.action = "complete" THEN _execute_complete(task, <<>>, failAt)
        ELSE IF entry.action = "reschedule"
        THEN IF ~Truthy(entry.changes.due_string)
             THEN Returned(Reply("missing_due_retry"), <<>>)
             ELSE _execute_reschedule(task, entry.changes.due_string, <<>>, failAt)
        ELSE Returned(Reply("unsupported_pending_action"), <<>>)
  IN /\ threads[t].pc = "execute"
     /\ Ran(Stored(threads[t].entry, threads[t].task))
     /\ UNCHANGED <<pending, next_id, msgs, last>>

ConcNext ==
  \E t \in 1..MaxThreads :
    \/ \E text \in ConcReplies : Receive(t, text)
    \/ CheckPending(t)
    \/ GetEntry(t)
    \/ Decide(t)
    \/ PopEntry(t)
    \/ \E failAt \in 0..1 : ExecuteStored(t, failAt)

SpecConc == ConcInit /\ [][ConcNext]_vars

(***************************************************************************)
(* Selector matching over task lists.  A backend with some list of open    *)
(* tasks gets one selector: _find_task_matches resolves it, then           *)
(* _run_selector_action acts on it as a completion of conversation 1, and  *)
(* the conversation answers the numbered list, if it got one, with a       *)
(* number.                                                                 *)
(***************************************************************************)
\* the contents of the tasks of the short lists
MatchContents ==
  { <<"a","b">>, <<"A","B">>, <<"A","b"," "," ","c">>, <<"a","b","d">>,
    <<"a","b","e">>, <<"a","b","c","e">>, <<"a","b","c","f">>,
    <<"a","b","x","c","d","y","z">>, <<"1","0","1">>, <<"^2">> }

\* the contents whose similarity to "abcd" is 0.75, 0.75, 0.727 and 0.857
SimilarContents ==
  { <<"a","b","c","e">>, <<"a","b","c","f">>, <<"a","b","x","c","d","y","z">>,
    <<"a","b","d">> }

\* the contents of the long lists: "ab" is in both
RepeatedContents == { <<"a","b">>, <<"a","b","c">> }

\* the length of the short lists
MaxShortList == 2

\* the length of the lists of similar contents
MaxSimilarList == 3

\* the length of the long lists, above the 5 candidates of a numbered list
MaxLongList == 6

\* the sequences of length n over the set S
SeqsOf(S, n) == [1..n -> S]

\* the lists of contents of the open tasks
MatchContentLists ==
  UNION {SeqsOf(MatchContents, n) : n \in 0..MaxShortList}
    \cup SeqsOf(SimilarContents, MaxSimilarList)
    \cup SeqsOf(RepeatedContents, MaxLongList)
    \cup { << <<"B","u","y"," ","m","i","l","k">>,
              <<"B","u","y"," ","o","a","t"," ","m","i","l","k">> >> }

\* the id of the first task of a list (the tests' tasks are 101, 102, ...)
FirstTaskId == 101

\* the open tasks with the contents cs, in listing order
TasksOf(cs) ==
  [i \in 1..Len(cs) |-> Task(FirstTaskId + i - 1, cs[i], Projects[1].id, NoneInt)]

\* the selectors
MatchSelectors ==
  { <<"a","b">>, <<" ","A","B"," ">>, <<"a","B"," ","\t"," ","C">>,
    <<"a","b","c">>, <<"a","b","c","d">>, <<"1","0","1">>, <<"^2">>, <<" "," ">>,
    S_buy }

\* the conversation of the selector
MatchChat == 1

\* the numbers the conversation answers with
MaxAnswer == 6

\* str(k) for a one-digit k
DigitText(k) == <<(<<"1","2","3","4","5","6","7","8","9">>)[k]>>

MatchInit ==
  /\ pending = <<>>
  /\ tasks \in {TasksOf(cs) : cs \in MatchContentLists}
  /\ next_id = FirstFreeId
  /\ msgs = 0
  /\ last \in {[op |-> "selector", selector |-> selector] : selector \in MatchSelectors}
  /\ threads = <<>>

\* _find_task_matches(tasks, selector)
FindTaskMatches ==
  /\ last.op = "selector"
  /\ last' = [op |-> "_find_task_matches", selector |-> last.selector,
              match |-> _find_task_matches(tasks, last.selector)]
  /\ UNCHANGED <<pending, tasks, next_id, msgs, threads>>

\* _run_selector_action(action_name="complete", selector=..., project_ref=None,
\* chat_id=1, ...): raised is the exception it leaves with, "none" if none
RunSelectorAction ==
  LET Ran(r) ==
        /\ pending' = r.pending
        /\ tasks' = ApplyCalls(tasks, r.calls, next_id)
        /\ last' = [op |-> "_run_selector_action", selector |-> last.selector,
                    match |-> last.match, open_tasks |-> tasks,
                    reply |-> r.reply, raised |-> r.raised, calls |-> r.calls,
                    status |-> r.status]
  IN /\ last.op = "_find_task_matches"
     /\ Ran(_run_selector_action("complete", last.selector, None, MatchChat, NoChanges,
                                 pending, tasks, ProjectRecords, SectionRecords, <<>>, 0))
     /\ UNCHANGED <<next_id, msgs, threads>>

\* handle_text(str(k), chat_id=1) for the conversation that got a numbered
\* list: _handle_pending_selection
AnswerWithNumber(k) ==
  LET Ran(r) ==
        /\ pending' = r.pending
        /\ tasks' = ApplyCalls(tasks, r.calls, next_id)
        /\ last' = [op |-> "_handle_pending_selection", selector |-> last.selector,
                    match |-> last.match, open_tasks |-> last.open_tasks,
                    entry |-> pending[MatchChat], choice |-> k,
                    reply |-> r.reply, raised |-> r.raised, calls |-> r.calls]
  IN /\ last.op = "_run_selector_action"
     /\ MatchChat \in DOMAIN pending
     /\ Ran(_handle_pending_selection(MatchChat, DigitText(k), pending, 0))
     /\ UNCHANGED <<next_id, msgs, threads>>

MatchNext ==
  \/ FindTaskMatches
  \/ RunSelectorAction
  \/ \E k \in 1..MaxAnswer : AnswerWithNumber(k)

SpecMatch == MatchInit /\ [][MatchNext]_vars

(***************************************************************************)
(* handle_text with an intent source that is not the OpenAILLMParser: any  *)
(* object with a parse method (the IntentParser protocol), as the tests'   *)
(* FakeLLMParser, whose intent reaches the merge policy as it is.          *)
(***************************************************************************)
\* the messages: one that no parser recognizes, a reschedule command, and
\* the replies to a numbered list
DirectTexts ==
  { S_hello, W_move \o S_buy \o M_due \o S_fri, <<"1">>, <<"3">>,
    <<"c","a","n","c","e","l">> }

DirectNext ==
  \/ \E text \in DirectTexts, chat_id \in ChatIds \cup {NoneInt} :
       HandleTextFrom(text, chat_id, DirectParsers \cup ParsersFor(TRUE))
  \/ SendReply
  \/ ResetRuntimeState

SpecDirect == Init /\ [][DirectNext]_vars

(***************************************************************************)
(* Project and section references.  A backend with some projects, sections *)
(* and open tasks gets one reference: the client resolves it as a project, *)
(* as a section, and as either, or handle_text gets a command of           *)
(* conversation 1 with the reference after /project and then the           *)
(* conversation's answer to the numbered list, if it got one.              *)
(***************************************************************************)
ApiProject(id, name, parent_id) == [id |-> id, name |-> name, parent_id |-> parent_id]

ApiSection(id, name, project_id) == [id |-> id, name |-> name, project_id |-> project_id]

\* the backend of the tests: the projects Inbox and To-Do, the section
\* To-Do/Joint to-do, and tasks of equal content inside and outside of it
TestWorld ==
  [projects |-> <<ApiProject(1, <<"I","n","b","o","x">>, NoneInt), ApiProject(10, <<"T","o","-","D","o">>, NoneInt)>>,
   sections |-> <<ApiSection(999, <<"J","o","i","n","t"," ","t","o","-","d","o">>, 10)>>,
   tasks |-> <<Task(101, <<"B","u","y"," ","m","i","l","k">>, 1, NoneInt), Task(102, <<"B","u","y"," ","o","a","t"," ","m","i","l","k">>, 1, NoneInt),
               Task(104, <<"P","l","a","n">>, 10, 999), Task(105, <<"P","l","a","n">>, 1, NoneInt),
               Task(107, <<"B","u","y"," ","m","i","l","k">>, 10, 999), Task(108, <<"B","u","y"," ","o","a","t"," ","m","i","l","k">>, 10, 999)>>]

\* the same with a task of the project To-Do that is in no section
UnsectionedWorld ==
  [TestWorld EXCEPT !.tasks = Append(@, Task(106, <<"P","l","a","n">>, 10, NoneInt))]

\* Joint to-do is a project below To-Do
NestedWorld ==
  [projects |-> <<ApiProject(10, <<"T","o","-","D","o">>, NoneInt), ApiProject(11, <<"J","o","i","n","t"," ","t","o","-","d","o">>, 10)>>,
   sections |-> <<>>,
   tasks |-> <<Task(101, <<"B","u","y"," ","m","i","l","k">>, 10, NoneInt), Task(104, <<"P","l","a","n">>, 11, NoneInt),
               Task(105, <<"P","l","a","n">>, 10, NoneInt)>>]

\* a project and a section with the path To-Do/Joint to-do
SamePathWorld ==
  [NestedWorld EXCEPT !.sections = <<ApiSection(999, <<"J","o","i","n","t"," ","t","o","-","d","o">>, 10)>>,
                      !.tasks = <<Task(104, <<"P","l","a","n">>, 10, 999),
                                  Task(105, <<"P","l","a","n">>, 11, NoneInt)>>]

\* two projects named Lists and two sections named Ops
ListsWorld ==
  [projects |-> <<ApiProject(10, <<"H","o","m","e">>, NoneInt), ApiProject(20, <<"W","o","r","k">>, NoneInt),
                  ApiProject(11, <<"L","i","s","t","s">>, 10), ApiProject(21, <<"L","i","s","t","s">>, 20)>>,
   sections |-> <<ApiSection(30, <<"O","p","s">>, 20), ApiSection(31, <<"O","p","s">>, 10)>>,
   tasks |-> <<Task(104, <<"P","l","a","n">>, 20, 30), Task(105, <<"P","l","a","n">>, 10, 31),
               Task(109, <<"P","l","a","n">>, 11, NoneInt)>>]

\* more tasks of one project than a numbered list offers
ManyWorld ==
  [projects |-> <<ApiProject(1, <<"I","n","b","o","x">>, NoneInt)>>,
   sections |-> <<>>,
   tasks |-> <<Task(101, <<"B","u","y"," ","m","i","l","k">>, 1, NoneInt), Task(102, <<"B","u","y"," ","o","a","t"," ","m","i","l","k">>, 1, NoneInt),
               Task(103, <<"B","u","y"," ","m","i","l","k">>, 1, NoneInt), Task(104, <<"B","u","y"," ","o","a","t"," ","m","i","l","k">>, 1, NoneInt),
               Task(105, <<"B","u","y"," ","m","i","l","k">>, 1, NoneInt), Task(106, <<"B","u","y"," ","o","a","t"," ","m","i","l","k">>, 1, NoneInt)>>]

Worlds == {TestWorld, UnsectionedWorld, NestedWorld, SamePathWorld, ListsWorld, ManyWorld}

\* the references
PathRefs ==
  { <<"t","o","-","d","o">>, <<"j","o","i","n","t">>, <<"j","o","i","n","t"," ","t","o","-","d","o">>, <<"T","o","-","D","o"," ","/"," ","J","o","i","n","t"," "," ","T","O","-","D","O">>, <<"#","t","o","-","d","o">>, <<"t","o","d","o">>,
    <<"i","n","b","o","x">>, <<"i","n","b","x">>, <<"l","i","s","t","s">>, <<"h","o","m","e","/","l","i","s","t","s">>, <<"w","o","r","k","\\","l","i","s","t","s">>, <<"h","o","m">>, <<"o","p","s">>,
    <<"w","o","r","k","/","o","p","s">>, <<"h","x","m","x">>, <<"x","x","/","j","o","i","n","t"," ","x","x","-","x","x">>, <<"t","o","-","d","o","/","j","o","i","n","t"," ","t","o","-","d","x">>,
    <<"j","o","i","n","t","t","o","d","o">>, <<"z","z","z">>, <<"#">> }

\* the selectors of the commands
ScopeSelectors == {S_buy, S_plan}

\* the text of a command of the kind, with the selector (the content of a
\* creation) and the reference
ScopedText(kind, selector, ref) ==
  IF kind = "edit" THEN W_edit \o selector \o M_set \o S_tea \o M_project \o ref
  ELSE IF kind = "complete" THEN W_done \o selector \o M_project \o ref
  ELSE IF kind = "reschedule" THEN W_move \o selector \o M_due \o S_fri \o M_project \o ref
  ELSE W_add \o selector \o M_project \o ref

ScopeInit ==
  /\ pending = <<>>
  /\ \E w \in Worlds :
       /\ tasks = w.tasks
       /\ last = [op |-> "world", projects |-> w.projects, sections |-> w.sections]
  /\ next_id = FirstFreeId
  /\ msgs = 0
  /\ threads = <<>>

\* TodoistClient.resolve_project(ref)
ResolveProject(ref) ==
  /\ last.op = "world"
  /\ last' = [op |-> "resolve_project", projects |-> last.projects,
              sections |-> last.sections, ref |-> ref,
              records |-> _project_records(last.projects),
              resolved |-> resolve_project(_project_records(last.projects), ref)]
  /\ UNCHANGED <<pending, tasks, next_id, msgs, threads>>

\* TodoistClient.resolve_section(ref)
ResolveSection(ref) ==
  /\ last.op = "world"
  /\ last' = [op |-> "resolve_section", projects |-> last.projects,
              sections |-> last.sections, ref |-> ref,
              records |-> _section_records(last.projects, last.sections),
              resolved |-> resolve_section(
                             _section_records(last.projects, last.sections), ref)]
  /\ UNCHANGED <<pending, tasks, next_id, msgs, threads>>

\* _resolve_project_or_section(todoist_client, ref)
ResolveProjectOrSection(ref) ==
  /\ last.op = "world"
  /\ last' = [op |-> "_resolve_project_or_section", projects |-> last.projects,
              sections |-> last.sections, ref |-> ref,
              resolved |-> _resolve_project_or_section(
                             _project_records(last.projects),
                             _section_records(last.projects, last.sections),
                             ref, <<>>, 0)]
  /\ UNCHANGED <<pending, tasks, next_id, msgs, threads>>

\* the effect of a call of handle_text by conversation 1 with outcome r
ScopedOutcome(text, kind, selector, ref, world, r) ==
  /\ pending' = r.pending
  /\ tasks' = ApplyCalls(tasks, r.calls, next_id)
  /\ last' = [op |-> "handle_text", projects |-> world.projects,
              sections |-> world.sections, ref |-> ref, kind |-> kind,
              selector |-> selector, text |-> text, chat_id |-> MatchChat,
              store |-> pending, open_tasks |-> tasks,
              reply |-> r.reply, raised |-> r.raised, calls |-> r.calls,
              status |-> r.status, route |-> r.route]
  /\ UNCHANGED <<next_id, msgs, threads>>

\* handle_text("<command> <selector> ... /project <ref>", chat_id=1)
HandleScoped(kind, selector, ref) ==
  /\ last.op = "world"
  /\ ScopedOutcome(ScopedText(kind, selector, ref), kind, selector, ref, last,
       handle_text(ScopedText(kind, selector, ref), MatchChat, NoParser, 0, pending,
                        tasks, _project_records(last.projects),
                        _section_records(last.projects, last.sections)))

\* handle_text(str(k), chat_id=1) for the conversation that got a numbered
\* list
AnswerScoped(k) ==
  /\ last.op = "handle_text"
  /\ last.route = "command"
  /\ MatchChat \in DOMAIN pending
  /\ ScopedOutcome(DigitText(k), last.kind, last.selector, last.ref, last,
       handle_text(DigitText(k), MatchChat, NoParser, 0, pending, tasks,
                        _project_records(last.projects),
                        _section_records(last.projects, last.sections)))

ScopeNext ==
  \/ \E ref \in PathRefs : ResolveProject(ref)
  \/ \E ref \in PathRefs : ResolveSection(ref)
  \/ \E ref \in PathRefs : ResolveProjectOrSection(ref)
  \/ \E kind \in {"edit", "complete", "reschedule", "create"},
        selector \in ScopeSelectors, ref \in PathRefs : HandleScoped(kind, selector, ref)
  \/ \E k \in 1..MaxAnswer : AnswerScoped(k)

SpecScope == ScopeInit /\ [][ScopeNext]_vars

(***************************************************************************)
(* Properties.  Those over `last` are read in the state a call of          *)
(* handle_text leaves: last holds the call's inputs (text, chat_id), what  *)
(* the call began with (store, entry, open_tasks) and its outcome.         *)
(***************************************************************************)
\* a call of handle_text from a conversation that had a pending selection
HadEntry == last.op = "handle_text" /\ last.entry # NoEntry

\* text.strip().lower()
Normalized(text) == Lower(Strip(text))

\* the message is one of cancel, stop, nevermind, never mind
IsCancelReply(text) ==
  Normalized(text) \in
    {<<"c","a","n","c","e","l">>, <<"s","t","o","p">>,
     <<"n","e","v","e","r","m","i","n","d">>,
     <<"n","e","v","e","r"," ","m","i","n","d">>}

\* the message is a decimal integer
IsInteger(text) == Normalized(text) # <<>> /\ ~IntRaises(Normalized(text))

\* the message is an integer k with 1 <= k <= the number of options of entry
InRangeReply(text, entry) ==
  /\ IsInteger(text)
  /\ ToInt(Normalized(text)) >= 1
  /\ ToInt(Normalized(text)) <= Len(entry.options)

\* the backend call of the stored action of entry on its k-th option
StoredCall(entry, k) ==
  IF entry.action = "complete"
  THEN [Call("close_task") EXCEPT !.task_id = entry.options[k].id]
  ELSE IF entry.action = "edit"
  THEN [Call("update_task") EXCEPT !.task_id = entry.options[k].id,
                                   !.content = entry.changes.content,
                                   !.due_string = entry.changes.due_string]
  ELSE [Call("update_task") EXCEPT !.task_id = entry.options[k].id,
                                   !.due_string = entry.changes.due_string]

\* the edit, complete or reschedule command the parsers read in text
SelectorCommand(text) ==
  IF parse_edit_command(text) # NoCommand THEN parse_edit_command(text)
  ELSE IF parse_complete_command(text) # NoCommand THEN parse_complete_command(text)
  ELSE parse_reschedule_command(text)

\* text is an edit, complete or reschedule command, without a project, whose
\* selector is ambiguous among the open tasks ts
IsAmbiguousCommand(text, ts) ==
  /\ SelectorCommand(text) # NoCommand
  /\ ~Truthy(SelectorCommand(text).project_ref)
  /\ _find_task_matches(ts, SelectorCommand(text).selector).status = "ambiguous"

\* C1: handle_text calls update_task or close_task only when the selector
\* resolved to found in that message or when the message is a valid in-range
\* numbered reply to a stored pending selection, and a message whose
\* resolution is ambiguous or none performs no backend mutation.
C1_MutationOnlyWhenResolved ==
  last.op = "handle_text" =>
    /\ (\E i \in 1..Len(last.calls) : last.calls[i].op \in {"update_task", "close_task"})
         => \/ last.status = "found"
            \/ last.entry # NoEntry /\ InRangeReply(last.text, last.entry)
    /\ last.status \in {"ambiguous", "none"} => Mutations(last.calls) = <<>>

\* C1: a command whose selector resolved to found closed its task
C1_Witness ==
  /\ last.op = "handle_text"
  /\ last.status = "found"
  /\ last.entry = NoEntry
  /\ \E i \in 1..Len(last.calls) : last.calls[i].op = "close_task" /\ last.calls[i].ok

\* C2: when the conversation has a pending selection with n candidates and
\* its message is an integer k with 1 <= k <= n, the entry is removed and the
\* stored action is executed with the stored changes on the k-th candidate,
\* and on no other task: the one backend call is that of the stored action.
C2_ChoiceExecutesStoredAction ==
  (HadEntry /\ InRangeReply(last.text, last.entry)) =>
    /\ last.chat_id \notin DOMAIN pending
    /\ last.route = "pending"
    /\ Len(last.calls) = 1
    /\ [last.calls[1] EXCEPT !.ok = TRUE]
         = StoredCall(last.entry, ToInt(Normalized(last.text)))

\* C2: the reply 2 to a stored edit updated the second candidate
C2_Witness ==
  /\ HadEntry
  /\ last.entry.action = "edit"
  /\ Normalized(last.text) = <<"2">>
  /\ Len(last.entry.options) >= 2
  /\ last.reply.kind = "updated"
  /\ last.reply.task_id = last.entry.options[2].id

\* C3: when the conversation has a pending selection and its message is
\* neither a cancel word nor an integer in [1, candidate count], the entry is
\* left unchanged, no backend mutation is performed and a prompt is returned.
\* The model violates it: the reply "^2" (a superscript digit, for which
\* isdigit() is true and int() raises) ends the call with a ValueError.
C3_InvalidReplyIsPrompted ==
  (HadEntry /\ ~IsCancelReply(last.text) /\ ~InRangeReply(last.text, last.entry)) =>
    /\ EntryOf(pending, last.chat_id) = last.entry
    /\ Mutations(last.calls) = <<>>
    /\ last.raised = "none"
    /\ last.reply.kind \in {"reply_with_number", "out_of_range"}

\* C4: when the conversation has a pending selection and its message, trimmed
\* and lower-cased, is cancel, stop, nevermind or never mind, the entry is
\* removed, a cancellation acknowledgment is returned and no backend call is
\* made; and no message of another conversation changes the entry of this
\* one, and a message of a conversation without an entry never takes the
\* pending route, so the following message is dispatched as in the idle state.
C4_CancelRemovesEntry ==
  last.op = "handle_text" =>
    /\ (last.entry # NoEntry /\ IsCancelReply(last.text)) =>
         /\ last.chat_id \notin DOMAIN pending
         /\ last.reply.kind = "canceled"
         /\ last.raised = "none"
         /\ last.calls = <<>>
    /\ last.entry = NoEntry => last.route # "pending"
    /\ \A c \in ChatIds \ {last.chat_id} : EntryOf(pending, c) = EntryOf(last.store, c)

\* C4: the reply " Never Mind" cancelled a pending selection
C4_Witness ==
  /\ HadEntry
  /\ last.text = <<" ","N","e","v","e","r"," ","M","i","n","d">>
  /\ last.reply.kind = "canceled"
  /\ last.chat_id \notin DOMAIN pending

\* C5: while the conversation has a pending selection, its message is handled
\* only by the pending-selection handler: no listing is rendered, no parsed
\* command is executed, the intent source is not called and no task is
\* created, whatever the text.
C5_PendingRouteIsExclusive ==
  HadEntry =>
    /\ last.route = "pending"
    /\ last.llm_calls = 0
    /\ last.command = "none"
    /\ last.source = "none"
    /\ last.status = "n/a"
    /\ \A i \in 1..Len(last.calls) : last.calls[i].op \in {"update_task", "close_task"}
    /\ last.reply.kind \in {"none", "canceled", "reply_with_number", "out_of_range",
                            "updated", "completed", "rescheduled"}

\* C5: the message "add tea" arrived while its conversation had an entry
C5_Witness ==
  /\ HadEntry
  /\ last.text = W_add \o S_tea
  /\ last.configured
  /\ last.reply.kind = "reply_with_number"

\* C6, as stated: the next message of the conversation removes its pending
\* selection, whatever the reply is.
C6_AnyReplyRemovesEntry ==
  HadEntry => last.chat_id \notin DOMAIN pending

\* C6: the next message of the conversation removes its pending selection
\* exactly when it is a cancel word or an integer in [1, candidate count];
\* after any other reply the entry is still there, unchanged.
C6_OnlyCancelOrChoiceRemovesEntry ==
  HadEntry =>
    /\ (last.chat_id \notin DOMAIN pending)
         <=> (IsCancelReply(last.text) \/ InRangeReply(last.text, last.entry))
    /\ last.chat_id \in DOMAIN pending => pending[last.chat_id] = last.entry

\* C6: the reply "hello" left the pending selection in place
C6_Witness ==
  /\ HadEntry
  /\ last.text = S_hello
  /\ last.chat_id \in DOMAIN pending
  /\ last.reply.kind = "reply_with_number"

\* C7, as stated: when the conversation sends a new ambiguous edit, complete
\* or reschedule command while it has a pending entry, the entry of the new
\* command replaces the old one.
C7_NewCommandReplacesEntry ==
  (HadEntry /\ IsAmbiguousCommand(last.text, last.open_tasks)) =>
    /\ last.chat_id \in DOMAIN pending
    /\ pending[last.chat_id].action = SelectorCommand(last.text).kind
    /\ pending[last.chat_id].options =
         _find_task_matches(last.open_tasks, SelectorCommand(last.text).selector).candidates

\* C7: the store holds at most one entry per conversation (it maps the
\* conversations to their entry), and a new ambiguous edit, complete or
\* reschedule command of a conversation that has a pending entry is taken as
\* a reply to that entry: it is answered with the prompt for a number, no
\* backend call is made and the old entry stays as it was.
C7_NewCommandIsTakenAsReply ==
  /\ DOMAIN pending \subseteq ChatIds
  /\ (HadEntry /\ IsAmbiguousCommand(last.text, last.open_tasks)) =>
       /\ last.route = "pending"
       /\ last.reply.kind = "reply_with_number"
       /\ last.calls = <<>>
       /\ last.chat_id \in DOMAIN pending
       /\ pending[last.chat_id] = last.entry

\* C7: "done buy" arrived while the entry of "edit buy /set tea" was pending
C7_Witness ==
  /\ HadEntry
  /\ last.entry.action = "edit"
  /\ last.text = W_done \o S_buy
  /\ IsAmbiguousCommand(last.text, last.open_tasks)
  /\ pending[last.chat_id].action = "edit"

\* C8: if two replies of the same conversation are processed concurrently
\* while it has one pending entry, the stored action is executed at most
\* once: at most one thread issues a backend mutation.  The model violates
\* it: both threads read the entry (line 371) before either removes it
\* (line 388).
C8_StoredActionExecutedOnce ==
  Cardinality({t \in DOMAIN threads : Mutations(threads[t].calls) # <<>>}) <= 1

\* C9: a call of handle_text issues at most one backend-mutating call, and no
\* mutating call follows one that failed.
C9_AtMostOneMutatingCall ==
  last.op = "handle_text" =>
    /\ Len(Mutations(last.calls)) <= 1
    /\ \A i \in 1..Len(last.calls) :
         (last.calls[i].op \in MutatingOps /\ ~last.calls[i].ok) =>
           \A j \in (i + 1)..Len(last.calls) : last.calls[j].op \notin MutatingOps

\* C9: a mutating call failed
C9_Witness ==
  /\ last.op = "handle_text"
  /\ last.raised = "TodoistAPIError"
  /\ \E i \in 1..Len(last.calls) :
       last.calls[i].op \in MutatingOps /\ ~last.calls[i].ok

\* C10, as stated: with chat_id absent an ambiguous resolution returns the
\* candidate list and leaves the store unchanged, and a following numeric
\* message is not treated as a selection and performs no mutation.
C10_UnkeyedNumericNeverMutates ==
  (last.op = "handle_text" /\ last.chat_id = NoneInt) =>
    /\ pending = last.store
    /\ last.status = "ambiguous" =>
         last.reply.kind = "multiple_matches" /\ last.reply.items # <<>>
    /\ (last.after_unkeyed_listing /\ IsDigit(Normalized(last.text))) =>
         last.route # "pending" /\ Mutations(last.calls) = <<>>

\* C10: with chat_id absent an ambiguous resolution returns the candidate
\* list and leaves the store unchanged, and a following numeric message is
\* not treated as a selection: it takes the routes of a conversation without
\* an entry, and it performs a mutation only when a configured intent source
\* maps it to a command.
C10_UnkeyedListingStoresNothing ==
  (last.op = "handle_text" /\ last.chat_id = NoneInt) =>
    /\ pending = last.store
    /\ last.status = "ambiguous" =>
         last.reply.kind = "multiple_matches" /\ last.reply.items # <<>>
    /\ (last.after_unkeyed_listing /\ IsDigit(Normalized(last.text))) =>
         /\ last.route # "pending"
         /\ Mutations(last.calls) # <<>> => last.configured /\ last.source = "intent"

\* C10: the message "2" followed a candidate list sent without a chat_id
C10_Witness ==
  /\ last.op = "handle_text"
  /\ last.chat_id = NoneInt
  /\ last.after_unkeyed_listing
  /\ last.text = <<"2">>
  /\ ~last.configured
  /\ last.reply.kind = "help"

(***************************************************************************)
(* The intent source                                                       *)
(***************************************************************************)
\* the call consulted the intent source and parse returned an intent
GotIntent == last.op = "handle_text" /\ last.llm_calls > 0 /\ ~last.parse_raised

\* the backend calls that build the context of parse, and no other
OnlyContextCalls(calls) ==
  /\ Len(calls) = 3
  /\ calls[1].op = "list_project_paths"
  /\ calls[2].op = "list_section_paths"
  /\ calls[3].op = "list_open_tasks"

\* the default help text, with nothing executed and nothing stored
HelpOnly ==
  /\ last.raised = "none"
  /\ last.reply = Reply("help")
  /\ Mutations(last.calls) = <<>>
  /\ pending = last.store

\* C11: when the intent source's parse raises, handle_text does not raise:
\* it performs no backend mutation, leaves the pending store unchanged and
\* returns the default help text.
C11_ParseFailureGivesHelp ==
  (last.op = "handle_text" /\ last.parse_raised) =>
    HelpOnly /\ last.produced = {} /\ OnlyContextCalls(last.calls)

\* C11: parse raised for the message "hello"
C11_Witness ==
  /\ last.op = "handle_text"
  /\ last.parse_raised
  /\ last.text = S_hello
  /\ last.reply.kind = "help"

\* C12, as stated: a failure of any backend call made while handling a
\* message, the listings that build the context of parse included, is not
\* caught by handle_text and leaves it as the backend's error.
C12_BackendFailurePropagates ==
  (last.op = "handle_text" /\ \E i \in 1..Len(last.calls) : ~last.calls[i].ok) =>
    last.raised = "TodoistAPIError"

\* the intent's clarify_question, or the generic rephrase prompt
GateReply(intent) ==
  IF intent.clarify_question # None /\ intent.clarify_question # <<>>
  THEN [Reply("clarify") EXCEPT !.items = <<intent.clarify_question>>]
  ELSE Reply("rephrase")

\* C13: with an intent of confidence below 0.55, handle_text executes
\* nothing (no backend mutation, no pending entry created), whatever the
\* intent's action and fields are, and replies with the intent's
\* clarify_question if it is set, else with the generic rephrase prompt.
C13_LowConfidenceExecutesNothing ==
  (GotIntent /\ last.intent.confidence < 55) =>
    /\ last.raised = "none"
    /\ last.reply = GateReply(last.intent)
    /\ OnlyContextCalls(last.calls)
    /\ pending = last.store
    /\ last.command = "none"

\* C13: an intent complete_task "buy" of confidence 0.54 got the rephrase
\* prompt
C13_Witness ==
  /\ GotIntent
  /\ last.intent.confidence = 54
  /\ last.intent.action = A_complete_task
  /\ last.intent.selector = S_buy
  /\ last.reply.kind = "rephrase"

\* the intent's action is one of the four and its required fields are
\* present: a selector and a content that are not empty, a new_content and a
\* due_string that are not None
HasRequiredFields(intent) ==
  LET Set(field) == field # None /\ field # <<>>
      Given(field) == field # None
      Is(action) == Lower(intent.action) = action
  IN \/ Is(A_edit_task) /\ Set(intent.selector)
          /\ (Given(intent.new_content) \/ Given(intent.due_string))
     \/ Is(A_create_task) /\ Set(intent.content)
     \/ Is(A_complete_task) /\ Set(intent.selector)
     \/ Is(A_reschedule_task) /\ Set(intent.selector) /\ Given(intent.due_string)

\* C14: a confident intent whose action is not recognized, or lacks a
\* required field, produces no command: handle_text returns the default help
\* text, performs no backend mutation and creates no pending entry.
C14_IncompleteIntentGivesHelp ==
  (GotIntent /\ last.intent.confidence >= 55 /\ ~HasRequiredFields(last.intent)) =>
    HelpOnly /\ last.produced = {} /\ OnlyContextCalls(last.calls)

\* C14: a confident edit_task intent without new_content and due_string
C14_Witness ==
  /\ GotIntent
  /\ last.intent.confidence = 90
  /\ last.intent.action = A_edit_task
  /\ last.intent.selector = S_buy
  /\ last.reply.kind = "help"

\* the message is one of the listing keywords
IsListingKeyword(text) ==
  Normalized(text) \in
    { <<"p","r","o","j","e","c","t","s">>,
      <<"l","i","s","t"," ","p","r","o","j","e","c","t","s">>,
      <<"s","e","c","t","i","o","n","s">>,
      <<"l","i","s","t"," ","s","e","c","t","i","o","n","s">>,
      <<"t","a","s","k","s">>,
      <<"l","i","s","t"," ","t","a","s","k","s">> }

\* one of the four command parsers recognizes the message
RecognizedByParser(text) ==
  \/ parse_edit_command(text) # NoCommand
  \/ parse_create_command(text) # NoCommand
  \/ parse_complete_command(text) # NoCommand
  \/ parse_reschedule_command(text) # NoCommand

\* C15: parse is called at most once per message, and only when the
\* conversation has no pending selection, the text is no listing keyword,
\* none of the four parsers recognized it and an intent source is
\* configured; a message a parser recognized is never sent to it.
C15_IntentSourceIsLastResort ==
  last.op = "handle_text" =>
    /\ last.llm_calls \in {0, 1}
    /\ last.llm_calls = 1 =>
         /\ last.entry = NoEntry
         /\ ~IsListingKeyword(last.text)
         /\ ~RecognizedByParser(last.text)
         /\ last.configured
    /\ RecognizedByParser(last.text) => last.llm_calls = 0 /\ last.source # "intent"

\* C15: the intent source was consulted for "hello"
C15_Witness ==
  /\ last.op = "handle_text"
  /\ last.llm_calls = 1
  /\ last.text = S_hello
  /\ last.source = "intent"

\* the command the four parsers read in text, or NoCommand
ParsedCommand(text) ==
  LET Or(c, next) == IF c # NoCommand THEN c ELSE next
  IN Or(parse_edit_command(text),
        Or(parse_complete_command(text),
           Or(parse_reschedule_command(text), parse_create_command(text))))

\* the command c has the action and the fields of the intent
SameAsIntent(c, intent) ==
  LET Is(action) == Lower(intent.action) = action
  IN /\ c.project_ref = intent.project_ref
     /\ \/ /\ c.kind = "edit" /\ Is(A_edit_task)
            /\ c.selector = intent.selector
            /\ c.new_content = intent.new_content
            /\ c.due_string = intent.due_string
        \/ /\ c.kind = "complete" /\ Is(A_complete_task)
            /\ c.selector = intent.selector
        \/ /\ c.kind = "reschedule" /\ Is(A_reschedule_task)
            /\ c.selector = intent.selector
            /\ c.due_string = intent.due_string
        \/ /\ c.kind = "create" /\ Is(A_create_task)
            /\ c.content = intent.content
            /\ c.due_string = intent.due_string

\* the position of the backend call that raised, 0 when none did
FailedAt(calls) == MaxOrZero({i \in 1..Len(calls) : ~calls[i].ok})

\* the calls issued after the three listings of the context of parse
AfterContext(calls) == SubSeq(calls, 4, Len(calls))

\* C16: a command produced from a confident intent is executed like the
\* same command produced by the parsers: for equal command fields, backend
\* state and conversation, both runs issue the same resolution and mutation
\* calls, return the same reply and leave the same pending store.
C16_IntentCommandRunsLikeParsed ==
  (GotIntent /\ last.source = "intent") =>
    \A text \in Texts :
      LET Same(r) ==
            /\ r.source = "parser"
            /\ r.command = last.command
            /\ r.calls = AfterContext(last.calls)
            /\ r.reply = last.reply
            /\ r.raised = last.raised
            /\ r.status = last.status
            /\ r.pending = pending
          Parsed(c) ==
            (c # NoCommand /\ SameAsIntent(c, last.intent)) =>
              Same(handle_text(text, last.chat_id, NoParser,
                               IF FailedAt(last.calls) > 3
                               THEN FailedAt(last.calls) - 3 ELSE 0,
                               last.store, last.open_tasks,
                               ProjectRecords, SectionRecords))
      IN Parsed(ParsedCommand(text))

\* C16: an intent complete_task "buy", the command of the text "done buy",
\* registered a pending selection
C16_Witness ==
  /\ GotIntent
  /\ last.source = "intent"
  /\ last.intent.action = A_complete_task
  /\ SameAsIntent(ParsedCommand(W_done \o S_buy), last.intent)
  /\ last.status = "ambiguous"
  /\ last.chat_id \in DOMAIN pending
  /\ last.chat_id \notin DOMAIN last.store

\* the command prefixes of the four parsers
CommandPrefixes ==
  { W_create, W_add, W_todo, W_edit, W_update, W_change,
    W_complete, W_done, W_finish, W_close, W_reschedule, W_move }

\* messages made of a command prefix, in either case, and a body
CommandTexts ==
  { prefix \o body :
      prefix \in CommandPrefixes \cup {<<"D","O","N","E"," ">>, <<" ","A","d","d"," ">>},
      body \in { <<>>, S_buy, S_buy \o M_set \o S_tea, S_buy \o M_due \o S_fri,
                 W_add \o S_tea, W_done \o S_buy \o M_due \o S_fri,
                 <<"#">> \o S_ops, M_set \o S_tea } }

\* no message is recognized by two of the four parsers
OneParserPerText ==
  \A text \in CommandTexts \cup Texts :
    Cardinality(Produced(parse_edit_command(text), parse_complete_command(text),
                         parse_reschedule_command(text), parse_create_command(text))) <= 1

\* the command the call produced, from the parsers or from the intent
ProducedCommand ==
  IF last.source = "parser" THEN ParsedCommand(last.text)
  ELSE CommandFromIntent(last.intent)

\* the dispatcher, in the state the call began with, on the command c and,
\* beside it, a command in every slot of a lower priority
WithLowerPriority(c) ==
  LET Lower_(kinds, command) == IF c.kind \in kinds THEN command ELSE NoCommand
      Slot(kind) == IF c.kind = kind THEN c ELSE NoCommand
      Or(x, y) == IF x # NoCommand THEN x ELSE y
  IN Execute(Slot("edit"),
             Or(Slot("complete"),
                Lower_({"edit"}, parse_complete_command(W_done \o S_plan))),
             Or(Slot("reschedule"),
                Lower_({"edit", "complete"},
                       parse_reschedule_command(W_move \o S_plan \o M_due \o S_fri))),
             Or(Slot("create"),
                Lower_({"edit", "complete", "reschedule"},
                       parse_create_command(W_add \o S_hello))),
             last.chat_id, last.store, last.open_tasks, ProjectRecords, SectionRecords,
             IF last.source = "intent" THEN SubSeq(last.calls, 1, 3) ELSE <<>>,
             FailedAt(last.calls))

\* C17: for every message text and every intent result at most one of the
\* four commands is not None when the dispatcher reaches execution, and the
\* dispatcher executes exactly one command, chosen in the fixed priority
\* edit, complete, reschedule, create: commands of a lower priority beside
\* the executed one would change nothing.
C17_OneCommandByPriority ==
  /\ OneParserPerText
  /\ (last.op = "handle_text" /\ last.route \in {"command", "intent"}) =>
       /\ Cardinality(last.produced) <= 1
       /\ last.produced = IF last.command = "none" THEN {} ELSE {last.command}
       /\ last.source = "intent" => ~RecognizedByParser(last.text)
       /\ last.command # "none" =>
            LET Same(r) ==
                  /\ r.reply = last.reply
                  /\ r.raised = last.raised
                  /\ r.calls = last.calls
                  /\ r.status = last.status
                  /\ r.pending = pending
            IN ProducedCommand.kind = last.command /\ Same(WithLowerPriority(ProducedCommand))

\* C17: the creation of an intent was the only command and was executed
C17_Witness ==
  /\ GotIntent
  /\ last.produced = {"create"}
  /\ last.command = "create"
  /\ last.reply.kind = "created"

(***************************************************************************)
(* Selector matching                                                       *)
(***************************************************************************)
\* trimmed, lower-cased, whitespace runs collapsed to one space
NormalText(text) == CollapseWhitespace(Lower(Strip(text)))

\* the positions of the tasks whose normalized content is the normalized
\* selector
ExactAt(ts, selector) ==
  {i \in 1..Len(ts) : NormalText(ts[i].content) = NormalText(selector)}

\* the positions of the tasks whose normalized content contains the
\* normalized selector
ContainsAt(ts, selector) ==
  {i \in 1..Len(ts) : Contains(NormalText(ts[i].content), NormalText(selector))}

\* the trimmed selector is empty or purely numeric: the cascade does not
\* compare contents
IsIdSelector(selector) == Strip(selector) = <<>> \/ IsDigit(Strip(selector))

\* _find_task_matches was applied to the selector and the open tasks
Matched == last.op = "_find_task_matches"

ScoreAt(ts, selector, i) == Ratio(NormalText(selector), NormalText(ts[i].content))

\* the score r is at least pct hundredths
ScoreAtLeast(r, pct) == r.num * 100 >= pct * r.den

\* the scores r1 >= r2 are pct hundredths apart or less
ScoresWithin(r1, r2, pct) ==
  (r1.num * r2.den - r2.num * r1.den) * 100 <= pct * r1.den * r2.den

\* the scores r1 >= r2 are less than pct hundredths apart
ScoresCloserThan(r1, r2, pct) ==
  (r1.num * r2.den - r2.num * r1.den) * 100 < pct * r1.den * r2.den

\* the pairs <<i, j>> of the positions of a highest-scoring task and of a
\* highest-scoring one among the others
TopTwo(ts, selector) ==
  LET NotBelow(i, j) ==
        ScoresWithin(ScoreAt(ts, selector, j), ScoreAt(ts, selector, i), 0)
  IN {p \in (1..Len(ts)) \X (1..Len(ts)) :
        /\ p[1] # p[2]
        /\ \A k \in 1..Len(ts) : NotBelow(p[1], k)
        /\ \A k \in (1..Len(ts)) \ {p[1]} : NotBelow(p[2], k)}

\* the selector reaches the similarity stage: it is no id, and no content
\* equals or contains it
SimilarityStage ==
  /\ Matched
  /\ ~IsIdSelector(last.selector)
  /\ ContainsAt(tasks, last.selector) = {}

StageAt(ts, selector) ==
  IF ExactAt(ts, selector) # {} THEN ExactAt(ts, selector) ELSE ContainsAt(ts, selector)

\* the tasks of ts at the positions P in list order, the first n of them
FirstInOrder(ts, P, n) ==
  LET Kth(k) == CHOOSE i \in P : Cardinality({j \in P : j < i}) = k - 1
      Count(m) == [k \in 1..(IF m <= n THEN m ELSE n) |-> ts[Kth(k)]]
  IN Count(Cardinality(P))

\* the list of open tasks the selector was resolved against
ResolvedAgainst == IF Matched THEN tasks ELSE last.open_tasks

\* two or more tasks match the selector at the exact-equality stage or, with
\* no exact match, at the substring stage
ManyMatch ==
  /\ last.op \in {"_find_task_matches", "_run_selector_action", "_handle_pending_selection"}
  /\ ~IsIdSelector(last.selector)
  /\ Cardinality(StageAt(ResolvedAgainst, last.selector)) >= 2

\* C20: when two or more tasks match at the exact-equality stage, or (with no
\* exact match) two or more match at the substring stage, _find_task_matches
\* returns ambiguous with the first 5 matching tasks in original list order,
\* _run_selector_action stores and lists them in that order without a
\* mutation, and the reply k then acts on the k-th of them and on no other.
C20_ManyMatchesOfferFirstFiveInOrder ==
  LET Holds(expected) ==
        /\ Len(expected) \in 2..5
        /\ Matched =>
             /\ last.match.status = "ambiguous"
             /\ last.match.candidates = expected
        /\ last.op = "_run_selector_action" =>
             /\ last.status = "ambiguous"
             /\ last.raised = "none"
             /\ last.reply.kind = "multiple_matches"
             /\ last.reply.items = expected
             /\ Mutations(last.calls) = <<>>
             /\ MatchChat \in DOMAIN pending
             /\ pending[MatchChat].options = expected
             /\ pending[MatchChat].action = "complete"
        /\ last.op = "_handle_pending_selection" =>
             /\ last.entry.options = expected
             /\ IF last.choice <= Len(expected)
                THEN /\ last.calls = <<[Call("close_task") EXCEPT
                                          !.task_id = expected[last.choice].id]>>
                     /\ last.reply.kind = "completed"
                     /\ last.reply.task_id = expected[last.choice].id
                     /\ MatchChat \notin DOMAIN pending
                ELSE /\ last.calls = <<>>
                     /\ last.reply.kind = "out_of_range"
  IN ManyMatch =>
       Holds(FirstInOrder(ResolvedAgainst, StageAt(ResolvedAgainst, last.selector),
                          MaxCandidates))

\* C20: with the tasks 101 'Buy milk' and 102 'Buy oat milk', the selector
\* 'buy' offered 101 then 102 and the reply 2 closed task 102
C20_Witness ==
  /\ last.op = "_handle_pending_selection"
  /\ last.selector = S_buy
  /\ last.open_tasks =
       TasksOf(<< <<"B","u","y"," ","m","i","l","k">>,
                  <<"B","u","y"," ","o","a","t"," ","m","i","l","k">> >>)
  /\ ExactAt(last.open_tasks, last.selector) = {}
  /\ ContainsAt(last.open_tasks, last.selector) = {1, 2}
  /\ last.entry.options = last.open_tasks
  /\ last.entry.options[1].id = 101
  /\ last.entry.options[2].id = 102
  /\ last.choice = 2
  /\ last.calls = <<[Call("close_task") EXCEPT !.task_id = 102]>>
  /\ last.reply.kind = "completed"
  /\ \A i \in 1..Len(tasks) : tasks[i].id # 102

(***************************************************************************)
(* Reschedule commands                                                     *)
(***************************************************************************)
\* the call reached execution with a RescheduleCommand
ProducedReschedule == last.op = "handle_text" /\ "reschedule" \in last.produced

\* C21, as stated: every RescheduleCommand that reaches execution, built by
\* parse_reschedule_command or by the intent merge policy, has a non-empty
\* selector and a non-empty due_string, and every pending entry with the
\* action reschedule stores a non-empty due_string.  The model violates it:
\* an intent whose due_string is the empty string passes the test
\* "due_string is not None" of the merge policy.
C21_RescheduleHasSelectorAndDue ==
  /\ ProducedReschedule =>
       /\ Truthy(ProducedCommand.selector)
       /\ Truthy(ProducedCommand.due_string)
  /\ \A chat_id \in DOMAIN pending :
       pending[chat_id].action = "reschedule" =>
         Truthy(pending[chat_id].changes.due_string)

(***************************************************************************)
(* Project and section references                                          *)
(***************************************************************************)
\* the reference without the surrounding whitespace and the leading #
BareRef(ref) == LStripHash(Strip(ref))

\* the positions of the records that match the reference at a step of the
\* cascade: 1 the normalized path, 2 the normalized leaf name, 3 the squashed
\* path or name, 4 the squashed path containing the squashed reference or
\* the squashed name starting with it, 5 the normalized path at a similarity
\* of 0.72 or more
StepMatches(records, ref, step) ==
  LET At(normalized, squashed) ==
        {i \in 1..Len(records) :
           IF step = 1 THEN records[i].path_norm = normalized
           ELSE IF step = 2 THEN records[i].name_norm = normalized
           ELSE IF step = 3
           THEN records[i].path_squash = squashed \/ records[i].name_squash = squashed
           ELSE IF step = 4
           THEN /\ squashed # <<>>
                /\ \/ Contains(records[i].path_squash, squashed)
                   \/ StartsWith(records[i].name_squash, squashed)
           ELSE ScoreAtLeast(Ratio(records[i].path_norm, normalized), 72)}
  IN At(_normalize_project_ref(BareRef(ref)), _squash_project_ref(BareRef(ref)))

\* the steps at which exactly one record matches the reference
UniqueSteps(records, ref, steps) ==
  {k \in steps : Cardinality(StepMatches(records, ref, k)) = 1}

\* the record that is the one match of the earliest of the steps that has
\* exactly one, NoRecord when no step has
EarliestUnique(records, ref, steps) ==
  LET First(unique) ==
        IF unique = {} THEN NoRecord
        ELSE records[CHOOSE i \in 1..Len(records) :
                       i \in StepMatches(records, ref,
                                         CHOOSE k \in unique : \A j \in unique : k <= j)]
  IN First(UniqueSteps(records, ref, steps))

\* the steps of resolve_project and of resolve_section
ProjectSteps == 1..5

SectionSteps == {1, 2, 3, 5}

\* C23: resolve_project returns the record that is the unique match at the
\* earliest step of the cascade (exact normalized path, exact leaf name,
\* squashed equality, squashed containment or name prefix, close match with
\* cutoff 0.72), a step with no match or several falling through to the
\* next, and None when no step has a unique match; resolve_section does the
\* same without the containment step.  With the project paths To-Do and
\* To-Do/Joint to-do, to-do resolves to To-Do and joint to To-Do/Joint to-do.
C23_UniqueMatchAtEarliestStep ==
  /\ last.op = "resolve_project" =>
       /\ last.resolved = EarliestUnique(last.records, last.ref, ProjectSteps)
       /\ (last.projects = NestedWorld.projects /\ last.ref = <<"t","o","-","d","o">>) =>
            last.resolved.path = <<"T","o","-","D","o">>
       /\ (last.projects = NestedWorld.projects /\ last.ref = <<"j","o","i","n","t">>) =>
            last.resolved.path = <<"T","o","-","D","o","/","J","o","i","n","t"," ","t","o","-","d","o">>
  /\ last.op = "resolve_section" =>
       last.resolved = EarliestUnique(last.records, last.ref, SectionSteps)

\* C23: joint resolved to the project To-Do/Joint to-do at the containment
\* step, no earlier step having a match
C23_Witness ==
  /\ last.op = "resolve_project"
  /\ last.projects = NestedWorld.projects
  /\ last.ref = <<"j","o","i","n","t">>
  /\ UniqueSteps(last.records, last.ref, ProjectSteps) = {4}
  /\ \A k \in 1..3 : StepMatches(last.records, last.ref, k) = {}
  /\ last.resolved.id = 11
  /\ last.resolved.path = <<"T","o","-","D","o","/","J","o","i","n","t"," ","t","o","-","d","o">>

\* the operations of a sequence of backend calls
OpsOf(calls) == [i \in 1..Len(calls) |-> calls[i].op]

\* C22: resolving a combined project-or-section reference returns the
\* project match whenever resolve_project finds one, without consulting the
\* sections; resolve_section is tried only when no project matched, and a
\* section match yields the section's id and its owning project's id; only
\* when neither matches is an error message returned.
C22_ProjectFirstThenSection ==
  last.op = "_resolve_project_or_section" =>
    LET Expected(project, section) ==
          IF project # NoRecord
          THEN /\ last.resolved.project_id = project.id
               /\ last.resolved.section_id = NoneInt
               /\ last.resolved.path = project.path
               /\ last.resolved.error.kind = "none"
               /\ OpsOf(last.resolved.calls) = <<"resolve_project">>
          ELSE IF section # NoRecord
          THEN /\ last.resolved.project_id = section.project_id
               /\ last.resolved.section_id = section.id
               /\ last.resolved.path = section.path
               /\ last.resolved.error.kind = "none"
               /\ OpsOf(last.resolved.calls) = <<"resolve_project", "resolve_section">>
               /\ \E i \in 1..Len(last.sections) :
                    /\ last.sections[i].id = section.id
                    /\ last.sections[i].project_id = last.resolved.project_id
          ELSE /\ last.resolved.project_id = NoneInt
               /\ last.resolved.section_id = NoneInt
               /\ last.resolved.path = None
               /\ last.resolved.error.kind \in
                    {"project_not_found_closest", "project_not_found_exact_hint"}
               /\ SubSeq(OpsOf(last.resolved.calls), 1, 2)
                    = <<"resolve_project", "resolve_section">>
    IN Expected(EarliestUnique(_project_records(last.projects), last.ref, ProjectSteps),
                EarliestUnique(_section_records(last.projects, last.sections), last.ref,
                               SectionSteps))

\* C22: a reference that matches both the project To-Do/Joint to-do and the
\* section Joint to-do of To-Do was resolved to the project, the sections
\* not consulted
C22_Witness ==
  /\ last.op = "_resolve_project_or_section"
  /\ last.sections # <<>>
  /\ EarliestUnique(_project_records(last.projects), last.ref, ProjectSteps) # NoRecord
  /\ EarliestUnique(_section_records(last.projects, last.sections), last.ref,
                    SectionSteps) # NoRecord
  /\ last.resolved.project_id = 11
  /\ last.resolved.section_id = NoneInt
  /\ OpsOf(last.resolved.calls) = <<"resolve_project">>

\* a section match gave the section's id and its owning project's id
C22_SectionMatch ==
  /\ last.op = "_resolve_project_or_section"
  /\ last.resolved.section_id = 999
  /\ last.resolved.project_id = 10
  /\ OpsOf(last.resolved.calls) = <<"resolve_project", "resolve_section">>

\* a command with a project reference, sent by a conversation that has no
\* pending entry
ScopedCommand ==
  /\ last.op = "handle_text"
  /\ last.text = ScopedText(last.kind, last.selector, last.ref)

\* the reference of the last command matches no project and no section
Unresolved ==
  /\ EarliestUnique(_project_records(last.projects), last.ref, ProjectSteps) = NoRecord
  /\ EarliestUnique(_section_records(last.projects, last.sections), last.ref,
                    SectionSteps) = NoRecord

\* the normalized paths of the records at a similarity of 0.45 or more to
\* the reference; none for a reference that is empty once normalized
NearPaths(records, ref) ==
  LET Near(normalized) ==
        {records[i].path_norm : i \in
           {j \in 1..Len(records) :
              /\ normalized # <<>>
              /\ ScoreAtLeast(Ratio(records[j].path_norm, normalized), 45)}}
  IN Near(_normalize_project_ref(BareRef(ref)))

\* items is a list without repetition made of at most 3 of the project
\* paths followed by at most 3 other paths taken from the section paths,
\* each collection complete when it has at most 3 paths
SuggestionList(items, project_paths, section_paths) ==
  /\ \A i, j \in 1..Len(items) : items[i] = items[j] => i = j
  /\ \E k \in 0..Len(items) :
       /\ k <= 3
       /\ Len(items) - k <= 3
       /\ \A i \in 1..k : items[i] \in project_paths
       /\ \A i \in (k + 1)..Len(items) : items[i] \in section_paths
       /\ Cardinality(project_paths) <= 3 =>
            project_paths = {items[i] : i \in 1..k}
       /\ Cardinality(section_paths) <= 3 =>
            section_paths \subseteq {items[i] : i \in 1..Len(items)}

\* C24: when a command's project_ref resolves to neither a project nor a
\* section, handle_text returns the "Could not find project/section"
\* message, performs no backend mutation and creates no pending entry; the
\* message lists the closest matches (project suggestions, then section
\* suggestions, without repetition) when there is a suggestion and the
\* exact-path hint otherwise.
C24_UnknownProjectGivesMessage ==
  (ScopedCommand /\ Unresolved) =>
    LET Listed(project_paths, section_paths) ==
          IF project_paths \cup section_paths # {}
          THEN /\ last.reply.kind = "project_not_found_closest"
               /\ last.reply.items # <<>>
               /\ SuggestionList(last.reply.items, project_paths, section_paths)
          ELSE /\ last.reply.kind = "project_not_found_exact_hint"
               /\ last.reply.items = <<>>
    IN /\ last.raised = "none"
       /\ Mutations(last.calls) = <<>>
       /\ tasks = last.open_tasks
       /\ pending = last.store
       /\ pending = <<>>
       /\ Listed(NearPaths(_project_records(last.projects), last.ref),
                 NearPaths(_section_records(last.projects, last.sections), last.ref))

\* C24: a command whose reference matches nothing and is close to one path
\* that is both a project's and a section's got the message listing that
\* path once
C24_Witness ==
  /\ ScopedCommand
  /\ Unresolved
  /\ last.kind = "complete"
  /\ NearPaths(_project_records(last.projects), last.ref)
       \cap NearPaths(_section_records(last.projects, last.sections), last.ref) # {}
  /\ last.reply.kind = "project_not_found_closest"
  /\ Len(last.reply.items) = 1
  /\ Mutations(last.calls) = <<>>
  /\ pending = <<>>

\* the exact-path hint was given
C24_ExactHint ==
  /\ ScopedCommand
  /\ Unresolved
  /\ last.reply.kind = "project_not_found_exact_hint"

\* the message listed project paths and then a section path
C24_BothCollections ==
  /\ ScopedCommand
  /\ Unresolved
  /\ Len(last.reply.items) >= 2
  /\ last.reply.items[Len(last.reply.items)]
       \notin NearPaths(_project_records(last.projects), last.ref)

\* the elements of a sequence
Range(seq) == {seq[i] : i \in 1..Len(seq)}

\* the project id and the section id (NoneInt for a project match) that the
\* reference of the last command resolves to; NoRecord when it resolves to
\* nothing
ScopeOf(project, section) ==
  IF project # NoRecord THEN [id |-> project.id, section_id |-> NoneInt]
  ELSE IF section # NoRecord THEN [id |-> section.project_id, section_id |-> section.id]
  ELSE NoRecord

LastScope ==
  ScopeOf(EarliestUnique(_project_records(last.projects), last.ref, ProjectSteps),
          EarliestUnique(_section_records(last.projects, last.sections), last.ref,
                         SectionSteps))

\* the task belongs to the project, and to the section when there is one
InScope(task, scope) ==
  /\ task.project_id = scope.id
  /\ scope.section_id # NoneInt => task.section_id = scope.section_id

\* the open tasks that the mutating calls of the last handle_text acted on
ActedOn == {t \in Range(last.open_tasks) :
              \E i \in 1..Len(last.calls) :
                /\ last.calls[i].op \in {"update_task", "close_task"}
                /\ last.calls[i].task_id = t.id}

\* C25: when an edit, complete or reschedule command carries a project_ref
\* that resolves, only the open tasks of the resolved project (and of the
\* resolved section, for a section match) are candidates: the task acted
\* on, at once or after a numbered reply, and every candidate stored in the
\* pending entry belong to it, even when a task with the same content
\* exists elsewhere.
C25_OnlyTasksOfResolvedScope ==
  (/\ last.op = "handle_text"
   /\ last.kind \in {"edit", "complete", "reschedule"}
   /\ LastScope # NoRecord) =>
    LET Within(scope) ==
          /\ \A i \in 1..Len(last.calls) :
               last.calls[i].op \in {"update_task", "close_task"} =>
                 \E t \in Range(last.open_tasks) : t.id = last.calls[i].task_id
          /\ \A t \in ActedOn : InScope(t, scope)
          /\ \A c \in DOMAIN pending :
               \A i \in 1..Len(pending[c].options) : InScope(pending[c].options[i], scope)
          /\ \A i \in 1..Len(last.reply.items) : InScope(last.reply.items[i], scope)
          /\ (ScopedCommand /\ last.status = "none") =>
               \A t \in Range(last.open_tasks) :
                 InScope(t, scope) =>
                   _find_task_matches(<<t>>, last.selector).status = "none"
    IN Within(LastScope)

\* C25: a command acted on the one task of the resolved project that
\* matches while a task with the same content is open in another project
C25_Witness ==
  /\ ScopedCommand
  /\ last.kind \in {"edit", "complete", "reschedule"}
  /\ LastScope # NoRecord
  /\ Cardinality(ActedOn) = 1
  /\ \A t \in ActedOn :
       /\ InScope(t, LastScope)
       /\ \E u \in Range(last.open_tasks) :
            u.content = t.content /\ ~InScope(u, LastScope)

\* a numbered list of tasks of the resolved section was stored while tasks
\* with the same contents are open elsewhere
C25_StoredInScope ==
  /\ ScopedCommand
  /\ LastScope # NoRecord
  /\ LastScope.section_id # NoneInt
  /\ MatchChat \in DOMAIN pending
  /\ \E u \in Range(last.open_tasks) :
       u.content = pending[MatchChat].options[1].content /\ ~InScope(u, LastScope)

\* C29, as stated: when an edit, complete or reschedule command's
\* project_ref resolves to a section, handle_text returns a reply (executed,
\* numbered list or not-found message) and does not raise, for every list
\* of open tasks, the lists that hold a task of the owning project without
\* a section included.  The model violates it: int(task.get("section_id",
\* -1)) raises TypeError for the section_id None of such a task.
C29_SectionScopeNeverRaises ==
  (/\ ScopedCommand
   /\ last.kind \in {"edit", "complete", "reschedule"}
   /\ LastScope # NoRecord
   /\ LastScope.section_id # NoneInt) =>
    /\ last.raised = "none"
    /\ last.reply.kind \in {"updated", "completed", "rescheduled", "multiple_matches",
                            "task_not_found"}

\* the same with open-task lists in which every task of the owning project
\* has a section
C29_SectionScopeReplies ==
  (/\ ScopedCommand
   /\ last.kind \in {"edit", "complete", "reschedule"}
   /\ LastScope # NoRecord
   /\ LastScope.section_id # NoneInt
   /\ \A t \in Range(last.open_tasks) :
        t.project_id = LastScope.id => t.section_id # NoneInt) =>
    /\ last.raised = "none"
    /\ last.reply.kind \in {"updated", "completed", "rescheduled", "multiple_matches",
                            "task_not_found"}

\* the actions that a pending entry is stored for
PendingActions == {"edit", "complete", "reschedule"}

\* C26: every entry of the pending-selection store, after any sequence of
\* handle_text calls, has an action among edit, complete and reschedule and
\* a candidate list of at least 2 and at most 5 tasks, so that the replies
\* 1 and 2 are in range for a stored entry.
C26_EntriesHaveTwoToFiveCandidates ==
  \A chat_id \in DOMAIN pending :
    /\ pending[chat_id].action \in PendingActions
    /\ Len(pending[chat_id].options) \in 2..5
    /\ ~OutOfRange(1, pending[chat_id].options)
    /\ ~OutOfRange(2, pending[chat_id].options)

\* C26: an entry with 5 candidates was stored by a command that more than 5
\* open tasks match
C26_Witness ==
  /\ last.op = "handle_text"
  /\ last.chat_id \in DOMAIN pending
  /\ last.chat_id \notin DOMAIN last.store
  /\ Len(pending[last.chat_id].options) = 5
  /\ Cardinality({t \in Range(last.open_tasks) :
                    _find_task_matches(<<t>>, last.selector).status = "found"}) > 5

\* the last call answered a stored list with a number of the list, and the
\* update_task or close_task it issued raised
FailedSelection ==
  /\ last.op = "handle_text"
  /\ last.route = "pending"
  /\ last.entry # NoEntry
  /\ IsDigit(Normalized(last.text))
  /\ ~IntRaises(Normalized(last.text))
  /\ ~OutOfRange(ToInt(Normalized(last.text)), last.entry.options)
  /\ last.calls # <<>>
  /\ last.calls[Len(last.calls)].op \in {"update_task", "close_task"}
  /\ ~last.calls[Len(last.calls)].ok

\* the entry was removed before the call that failed, and the error left
\* handle_text with nothing changed at the backend
RemovedBeforeFailure ==
  /\ last.raised = "TodoistAPIError"
  /\ last.reply = Reply("none")
  /\ last.chat_id \in DOMAIN last.store
  /\ last.chat_id \notin DOMAIN pending
  /\ pending = Pop(last.store, last.chat_id)
  /\ Len(last.calls) = 1
  /\ tasks = last.open_tasks

\* C27, as stated: on a valid numbered reply the pending entry is removed
\* before the backend call is issued: if update_task or close_task then
\* fails, the error propagates and the conversation is already idle, so the
\* same numbered reply sent again is not treated as a selection and
\* triggers no mutation.  The model violates the last part: a configured
\* intent source can map the number to a command.
C27_RepeatedReplyNeverMutates ==
  FailedSelection =>
    /\ RemovedBeforeFailure
    /\ \A llm_parser \in ParsersFor(TRUE) :
         LET Again(r) == r.route # "pending" /\ Mutations(r.calls) = <<>>
         IN Again(Handle(last.text, last.chat_id, llm_parser, 0))

\* C27: on a valid numbered reply the pending entry is removed before the
\* backend call is issued: if update_task or close_task then fails, the
\* error propagates and the conversation is already idle, so the same
\* numbered reply sent again is not treated as a selection; it is dispatched
\* as in the idle state and performs a mutation, or stores a new entry, only
\* when a configured intent source maps it to a command, and without an
\* intent source it gets the help text and no backend call is made.
C27_RepeatedReplyIsNoSelection ==
  FailedSelection =>
    /\ RemovedBeforeFailure
    /\ \A llm_parser \in ParsersFor(TRUE) :
         LET Again(r) ==
               /\ r.route # "pending"
               /\ (Mutations(r.calls) # <<>> \/ r.pending # pending) =>
                    llm_parser.configured /\ r.source = "intent"
               /\ ~llm_parser.configured =>
                    r.reply = Reply("help") /\ r.calls = <<>>
         IN Again(Handle(last.text, last.chat_id, llm_parser, 0))

\* C27: the reply 1 to a stored list ended with the failure of close_task
\* and the entry removed
C27_Witness ==
  /\ FailedSelection
  /\ last.text = <<"1">>
  /\ last.entry.action = "complete"
  /\ last.calls[1].op = "close_task"
  /\ last.raised = "TodoistAPIError"
  /\ last.chat_id \notin DOMAIN pending
  /\ Handle(last.text, last.chat_id, NoParser, 0).reply = Reply("help")

\* C28: handling a message from conversation D, whatever its text and
\* outcome, never adds, removes or changes the pending entry of another
\* conversation C; C's entry changes only through C's own messages or
\* reset_runtime_state.
C28_OtherConversationsKeepTheirEntry ==
  [][\A C \in ChatIds :
       EntryOf(pending', C) # EntryOf(pending, C) =>
         \/ last'.op = "handle_text" /\ last'.chat_id = C
         \/ last'.op = "reset_runtime_state"]_vars

\* C28: conversation 1 answered its list with a number while conversation 2
\* had an entry, which is still the same
C28_Witness ==
  /\ last.op = "handle_text"
  /\ last.chat_id = 1
  /\ last.route = "pending"
  /\ DOMAIN last.store = {1, 2}
  /\ DOMAIN pending = {2}
  /\ pending[2] = last.store[2]
  /\ Mutations(last.calls) # <<>>

====
